---- MODULE Spec2Model ----
(***************************************************************************)
(* Model of the product-search tools of the shopping concierge agent       *)
(* (serp_tools.py): optimize_search_query, extract_price_range,            *)
(* search_amazon_products, search_products and generate_packing_list.      *)
(*                                                                         *)
(* Text is a sequence of one-character strings, so that substring tests,   *)
(* str.replace, str.strip, str.split and the regular expressions of the    *)
(* source are computed character by character.  Ratings are kept in tenths *)
(* (35 is 3.5).  Python's None is the empty tuple and a present value v is *)
(* the one-element tuple <<v>>.                                            *)
(***************************************************************************)
EXTENDS Integers, Sequences, FiniteSets, TLC

VARIABLES
  pc,             \* where the call in progress stands
  query,          \* the text given to the function called
  optimized,      \* optimize_search_query's return value
  price_range,    \* extract_price_range's return value
  max_results,    \* search_amazon_products: max_results
  min_rating,     \* search_amazon_products: min_rating, in tenths
  provider,       \* what the secret store and the provider do with the call
  search_results, \* search_amazon_products' outcome: a return value or an exception
  calls,          \* the requests sent to the provider by the running loop over query
                  \* variants, in order
  searches,       \* the queries the running loop over query variants called
                  \* search_amazon_products with, in order
  question,       \* search_products, generate_packing_list: question
  search_attempts, \* search_products: search_attempts
  attempt,        \* search_products: attempt, the position in search_attempts
  products,       \* search_products: products
  last_error,     \* search_products: last_error
  ret,            \* the outcome of search_products or generate_packing_list
  packing_items,  \* generate_smart_packing_list: its return, packing_items of the caller
  priority_items, \* generate_packing_list: priority_items
  item,           \* generate_packing_list: the position in priority_items
  variant,        \* generate_packing_list: the position in search_queries
  results,        \* generate_packing_list: results
  asins_dict,     \* generate_packing_list: asins_dict, as (item, asins) in insertion order
  failed_searches, \* generate_packing_list: failed_searches
  answer,         \* generate_packing_list: answer
  provider_calls, \* history: the provider requests one run of generate_packing_list has
                  \* made, kept by PackingAttemptCounted only
  user_id,        \* shopping_assistant: user_id
  gateway,        \* shopping_assistant: what the credential lookup or the gateway did
                  \* with the last call
  requests,       \* history: the requests posted to the gateway, in order
  yielded         \* shopping_assistant: the records yielded, in order

vars == <<pc, query, optimized, price_range, max_results, min_rating, provider,
          search_results, calls, searches, question, search_attempts, attempt,
          products, last_error, ret, packing_items, priority_items, item, variant,
          results, asins_dict, failed_searches, answer, provider_calls, user_id,
          gateway, requests, yielded>>

textVars == <<optimized, price_range>>
providerVars == <<max_results, min_rating, provider, search_results, calls>>
searchVars == <<searches, question, search_attempts, attempt, products, last_error, ret>>
packingVars == <<packing_items, priority_items, item, variant, results, asins_dict,
                 failed_searches, answer, provider_calls>>

gatewayVars == <<user_id, gateway, requests, yielded>>

None == <<>>
Some(v) == <<v>>

\* The element of a set of one element: {e(x) : x \in {v}} computes v once for e.
The(S) == CHOOSE x \in S : TRUE

\* The least element of a non-empty set of integers.
Min(S) == CHOOSE a \in S : \A b \in S : a <= b

(***************************************************************************)
(* Bounds of the model.                                                    *)
(***************************************************************************)
\* The longest text drawn for optimize_search_query, in pieces of WordPieces.
MaxPieces == 4

\* The longest text drawn for extract_price_range, in pieces of PricePieces.
MaxPricePieces == 2

\* The most records in a provider response drawn for search_amazon_products.
MaxRecords == 3

\* The longest trip description drawn for generate_smart_packing_list, in pieces of
\* DescriptionPieces.
MaxWords == 3

(***************************************************************************)
(* Strings.                                                                *)
(***************************************************************************)
Whitespace == {" ", "\t"}

Digits == <<"0","1","2","3","4","5","6","7","8","9">>

IsDigit(c) == \E d \in 1..Len(Digits) : Digits[d] = c

DigitVal(c) == (CHOOSE d \in 1..Len(Digits) : Digits[d] = c) - 1

UpperCase == <<"A","B","C","D","E","F","G","H","I","J","K","L","M","N","O","P","Q","R","S","T","U","V","W","X","Y","Z">>

LowerCase == <<"a","b","c","d","e","f","g","h","i","j","k","l","m","n","o","p","q","r","s","t","u","v","w","x","y","z">>

\* str.lower(), one character.
LowerChar(c) ==
  IF \E k \in 1..Len(UpperCase) : UpperCase[k] = c
  THEN LowerCase[CHOOSE k \in 1..Len(UpperCase) : UpperCase[k] = c]
  ELSE c

\* str.lower()
Lower(s) == [k \in 1..Len(s) |-> LowerChar(s[k])]

\* Whether sub occurs in s starting at position p.
OccursAt(s, sub, p) ==
  /\ p >= 1
  /\ p + Len(sub) - 1 <= Len(s)
  /\ \A k \in 1..Len(sub) : s[p + k - 1] = sub[k]

\* str.find from position p: the least position >= p where sub occurs, or 0.
Find(s, sub, p) ==
  LET hits == {h \in p..(Len(s) - Len(sub) + 1) : OccursAt(s, sub, h)}
  IN  IF hits = {} THEN 0 ELSE Min(hits)

\* Python's `sub in s`.
Contains(s, sub) == Find(s, sub, 1) # 0

RECURSIVE Remove(_, _)
\* s.replace(old, ''): every non-overlapping occurrence, left to right.
Remove(s, old) ==
  LET p == Find(s, old, 1)
  IN  IF p = 0 THEN s
      ELSE SubSeq(s, 1, p - 1) \o Remove(SubSeq(s, p + Len(old), Len(s)), old)

\* str.strip()
Strip(s) ==
  LET keep == {k \in 1..Len(s) : s[k] \notin Whitespace}
  IN  IF keep = {} THEN <<>>
      ELSE SubSeq(s, CHOOSE a \in keep : \A b \in keep : a <= b,
                     CHOOSE a \in keep : \A b \in keep : a >= b)

\* t with each run of whitespace replaced by one space.
Squeeze(t) ==
  LET first(k) == t[k] \notin Whitespace \/ k = 1 \/ t[k - 1] \notin Whitespace
      kept == SelectSeq([k \in 1..Len(t) |-> k], first)
  IN  [n \in 1..Len(kept) |-> IF t[kept[n]] \in Whitespace THEN " " ELSE t[kept[n]]]

\* ' '.join(s.split()): runs of whitespace become one space, the ends are trimmed.
JoinSplit(s) == Squeeze(Strip(s))

(***************************************************************************)
(* optimize_search_query                                                   *)
(***************************************************************************)
filler_words == <<
  <<"i"," ","n","e","e","d">>,
  <<"i"," ","w","a","n","t">>,
  <<"l","o","o","k","i","n","g"," ","f","o","r">>,
  <<"f","i","n","d"," ","m","e">>,
  <<"s","e","a","r","c","h"," ","f","o","r">>,
  <<"s","h","o","w"," ","m","e">>,
  <<"g","e","t"," ","m","e">> >>

\* The dict keeps insertion order: the order of iteration.
improvements == <<
  [keyword |-> <<"h","i","k","i","n","g">>, improvement |-> <<"h","i","k","i","n","g"," ","o","u","t","d","o","o","r"," ","g","e","a","r">>],
  [keyword |-> <<"t","r","a","v","e","l">>, improvement |-> <<"t","r","a","v","e","l"," ","a","c","c","e","s","s","o","r","i","e","s">>],
  [keyword |-> <<"b","e","a","c","h">>, improvement |-> <<"b","e","a","c","h"," ","v","a","c","a","t","i","o","n">>],
  [keyword |-> <<"w","i","n","t","e","r">>, improvement |-> <<"w","i","n","t","e","r"," ","g","e","a","r">>],
  [keyword |-> <<"w","o","r","k","o","u","t">>, improvement |-> <<"f","i","t","n","e","s","s"," ","e","x","e","r","c","i","s","e">>],
  [keyword |-> <<"o","f","f","i","c","e">>, improvement |-> <<"o","f","f","i","c","e"," ","s","u","p","p","l","i","e","s">>],
  [keyword |-> <<"k","i","t","c","h","e","n">>, improvement |-> <<"k","i","t","c","h","e","n"," ","a","p","p","l","i","a","n","c","e","s">>],
  [keyword |-> <<"p","h","o","n","e">>, improvement |-> <<"s","m","a","r","t","p","h","o","n","e"," ","a","c","c","e","s","s","o","r","i","e","s">>],
  [keyword |-> <<"l","a","p","t","o","p">>, improvement |-> <<"l","a","p","t","o","p"," ","c","o","m","p","u","t","e","r">>],
  [keyword |-> <<"c","a","m","e","r","a">>, improvement |-> <<"d","i","g","i","t","a","l"," ","c","a","m","e","r","a"," ","p","h","o","t","o","g","r","a","p","h","y">>] >>

RECURSIVE RemoveFillers(_, _)
\* The loop over filler_words from the i-th on: replace, then strip, per phrase.
RemoveFillers(query_lower, i) ==
  IF i > Len(filler_words) THEN query_lower
  ELSE The({RemoveFillers(stripped, i + 1)
            : stripped \in {Strip(Remove(query_lower, filler_words[i]))}})

RECURSIVE AddImprovementAll(_, _)
\* A loop over improvements that does not stop at the first keyword applied.
AddImprovementAll(query_lower, i) ==
  IF i > Len(improvements) THEN query_lower
  ELSE IF /\ Contains(query_lower, improvements[i].keyword)
          /\ ~Contains(query_lower, improvements[i].improvement)
       THEN The({AddImprovementAll(improved, i + 1)
                 : improved \in {improvements[i].improvement \o <<" ">> \o query_lower}})
       ELSE AddImprovementAll(query_lower, i + 1)

RECURSIVE AddImprovement(_, _)
\* The loop over improvements from the i-th on, with its break.
AddImprovement(query_lower, i) ==
  IF i > Len(improvements) THEN query_lower
  ELSE IF /\ Contains(query_lower, improvements[i].keyword)
          /\ ~Contains(query_lower, improvements[i].improvement)
       THEN improvements[i].improvement \o <<" ">> \o query_lower
       ELSE AddImprovement(query_lower, i + 1)

optimize_search_query(q) ==
  The({JoinSplit(improved)
       : improved \in {AddImprovement(cleaned, 1)
                        : cleaned \in {RemoveFillers(query_lower, 1)
                                        : query_lower \in {Lower(q)}}}})

(***************************************************************************)
(* extract_price_range                                                     *)
(***************************************************************************)
\* Each pattern: its literal word, and whether the source's test
\* ('under' in pattern or 'below' in pattern or 'less than' in pattern) holds.
price_patterns == <<
  [form |-> "ceiling", word |-> <<"u","n","d","e","r">>],
  [form |-> "ceiling", word |-> <<"b","e","l","o","w">>],
  [form |-> "ceiling", word |-> <<"l","e","s","s"," ","t","h","a","n">>],
  [form |-> "range", word |-> <<"-">>],
  [form |-> "between", word |-> <<"a","n","d">>],
  [form |-> "range", word |-> <<"t","o">>] >>

Between == <<"b","e","t","w","e","e","n">>

\* \s* from position p: the first position at or after p that holds no whitespace.
SkipSpace(s, p) ==
  CHOOSE q \in p..(Len(s) + 1) :
    /\ \A k \in p..(q - 1) : s[k] \in Whitespace
    /\ q <= Len(s) => s[q] \notin Whitespace

\* \$? from position p.
SkipDollar(s, p) == IF p <= Len(s) /\ s[p] = "$" THEN p + 1 ELSE p

\* Whether (\d+) matches at p.
DigitAt(s, p) == p <= Len(s) /\ IsDigit(s[p])

\* (\d+) from position p, greedy: the last position of the run of digits.
DigitsEnd(s, p) ==
  CHOOSE q \in p..Len(s) :
    /\ \A k \in p..q : IsDigit(s[k])
    /\ q < Len(s) => ~IsDigit(s[q + 1])

RECURSIVE ToInt(_, _, _)
\* int() of the digits s[p..q].
ToInt(s, p, q) ==
  IF q < p THEN 0 ELSE 10 * ToInt(s, p, q - 1) + DigitVal(s[q])

\* \$?(\d+) from position p: <<value, next position>>, or <<>>.
Amount(s, p) ==
  LET d == SkipDollar(s, p)
  IN  IF DigitAt(s, d) THEN <<ToInt(s, d, DigitsEnd(s, d)), DigitsEnd(s, d) + 1>>
      ELSE <<>>

\* word\s*\$?(\d+) at position p: the groups of the match, or <<>>.
MatchCeiling(s, word, p) ==
  IF ~OccursAt(s, word, p) THEN <<>>
  ELSE LET a == Amount(s, SkipSpace(s, p + Len(word)))
       IN  IF a = <<>> THEN <<>> ELSE <<a[1]>>

\* \$?(\d+)\s*word\s*\$?(\d+) at position p: the groups of the match, or <<>>.
MatchRange(s, word, p) ==
  LET a == Amount(s, p)
  IN  IF a = <<>> THEN <<>>
      ELSE LET w == SkipSpace(s, a[2])
           IN  IF ~OccursAt(s, word, w) THEN <<>>
               ELSE LET b == Amount(s, SkipSpace(s, w + Len(word)))
                    IN  IF b = <<>> THEN <<>> ELSE <<a[1], b[1]>>

\* between\s*\$?(\d+)\s*and\s*\$?(\d+) at position p.
MatchBetween(s, word, p) ==
  IF ~OccursAt(s, Between, p) THEN <<>>
  ELSE MatchRange(s, word, SkipSpace(s, p + Len(Between)))

MatchAt(s, pattern, p) ==
  CASE pattern.form = "ceiling" -> MatchCeiling(s, pattern.word, p)
    [] pattern.form = "range" -> MatchRange(s, pattern.word, p)
    [] pattern.form = "between" -> MatchBetween(s, pattern.word, p)

\* re.search(pattern, s): the groups of the leftmost match, or <<>>.
Search(pattern, s) ==
  LET hits == {p \in 1..Len(s) : MatchAt(s, pattern, p) # <<>>}
  IN  IF hits = {} THEN <<>>
      ELSE MatchAt(s, pattern, Min(hits))

\* What the loop returns on a match of the pattern.
Matched(pattern, groups) ==
  IF pattern.form = "ceiling" THEN <<None, Some(groups[1])>>
  ELSE <<Some(groups[1]), Some(groups[2])>>

RECURSIVE ExtractLast(_, _)
\* A loop that keeps the last matching pattern instead of returning at the first.
ExtractLast(query_lower, i) ==
  IF i < 1 THEN <<None, None>>
  ELSE LET m == Search(price_patterns[i], query_lower)
       IN  IF m # <<>> THEN Matched(price_patterns[i], m)
           ELSE ExtractLast(query_lower, i - 1)

extract_price_range_last(q) ==
  The({ExtractLast(query_lower, Len(price_patterns)) : query_lower \in {Lower(q)}})

RECURSIVE ExtractFrom(_, _)
\* The loop over price_patterns from the i-th on.
ExtractFrom(query_lower, i) ==
  IF i > Len(price_patterns) THEN <<None, None>>
  ELSE LET m == Search(price_patterns[i], query_lower)
       IN  IF m # <<>> THEN Matched(price_patterns[i], m)
           ELSE ExtractFrom(query_lower, i + 1)

\* query_lower = query.lower(), then the loop.
extract_price_range(q) ==
  The({ExtractFrom(query_lower, 1) : query_lower \in {Lower(q)}})

(***************************************************************************)
(* search_amazon_products                                                  *)
(***************************************************************************)
\* Before a call: no outcome yet.
NoOutcome == [kind |-> "none"]

\* A function call ends by returning a value or by raising an exception.
Return(v) == [kind |-> "return", value |-> v]
Raise(type, text) == [kind |-> "raise", type |-> type, error |-> text]

\* min_rating's default, in tenths.
DefaultMinRating == 35

\* Truth value of an optional number: None and 0 are false.
Truthy(x) == x # None /\ x[1] # 0

\* get_serpapi_key via get_ssm_parameter: every failure is raised as a ValueError.
get_serpapi_key(p) ==
  IF p.kind = "credential_error" THEN Raise("ValueError", p.error) ELSE Return("api_key")

\* The request: the optimized query and the price bounds detected in the query.
Params(q) ==
  The({ [k |-> optimize_search_query(q),
         low_price |-> IF Truthy(range[1]) THEN range[1] ELSE None,
         high_price |-> IF Truthy(range[2]) THEN range[2] ELSE None]
        : range \in {extract_price_range(q)} })

\* The rating of a record: float() of a truthy value, 0 when that fails.
Rating(product) ==
  CASE product.rating.t = "missing" -> 0
    [] product.rating.t = "num" -> product.rating.v
    [] product.rating.t = "str" -> product.rating.v
    [] product.rating.t = "text" -> 0

\* A filter that compares with the default instead of the min_rating given.
BelowDefault(rating, minimum) == rating > 0 /\ rating < DefaultMinRating

\* The rating filter.
BelowMinimum(rating, minimum) == rating > 0 /\ rating < minimum

\* A price value: a number (in cents), or a text.
Numeric(v) == [t |-> "num", v |-> v, s |-> ""]
Text(s) == [t |-> "text", v |-> 0, s |-> s]

\* The price of a record: the 'value' of a dict, the number found in a string (or the
\* string when it holds none), a number, "N/A" otherwise.  A string in which the
\* pattern [\d,]+\.?\d* finds only commas makes float('') raise.
Price(product) ==
  CASE product.price.t = "dict" -> Return(Numeric(product.price.v))
    [] product.price.t = "str" -> Return(Numeric(product.price.v))
    [] product.price.t = "text" -> Return(Text(product.price.s))
    [] product.price.t = "comma" ->
         Raise("ValueError", "could not convert string to float: ''")
    [] product.price.t = "num" -> Return(Numeric(product.price.v))
    [] product.price.t = "missing" -> Return(Text("N/A"))

\* product.get("reviews", 0)
Reviews(product) ==
  IF product.reviews.t = "missing" THEN [t |-> "int", v |-> 0]
  ELSE [t |-> product.reviews.t, v |-> product.reviews.v]

ProductInfo(product, price_value) ==
  [asin |-> product.asin,
   title |-> product.title,
   price |-> price_value,
   rating |-> Rating(product),
   reviews |-> Reviews(product)]

\* A product is appended whether or not it has an identifier.
AppendAny(prods, product_info) == Append(prods, product_info)

\* Only products with an ASIN are appended.
AppendIfAsin(prods, product_info) ==
  IF product_info.asin # "" THEN Append(prods, product_info) ELSE prods

\* What the turn of the loop for a record raises, if it raises: a record that is no
\* dict has no get, and the price of a record that passes the rating filter may fail.
Fault(product, minimum) ==
  IF product.shape # "dict"
  THEN Raise("AttributeError", "'str' object has no attribute 'get'")
  ELSE IF BelowMinimum(Rating(product), minimum) THEN NoOutcome
  ELSE IF Price(product).kind = "raise" THEN Price(product)
  ELSE NoOutcome

\* What the turn of the loop for a record appends to products, when it does not raise.
Appended(product, minimum) ==
  IF BelowMinimum(Rating(product), minimum) THEN <<>>
  ELSE AppendIfAsin(<<>>, ProductInfo(product, Price(product).value))

\* A loop over organic_results without the test of len(products) against max_results.
CollectWhole(organic_results, maximum, minimum) ==
  LET raises(i) == Fault(organic_results[i], minimum).kind = "raise"
      appends(i) == ~raises(i) /\ Appended(organic_results[i], minimum) # <<>>
      ends == {i \in 1..Len(organic_results) : raises(i)}
      last == IF ends = {} THEN Len(organic_results) ELSE Min(ends)
      kept == SelectSeq([i \in 1..last |-> i], appends)
  IN  IF last >= 1 /\ raises(last) THEN Fault(organic_results[last], minimum)
      ELSE Return([n \in 1..Len(kept) |-> Appended(organic_results[kept[n]], minimum)[1]])

\* The loop over organic_results: it ends at the first record whose turn raises, or
\* after the first record that is not skipped and leaves max_results products.
Collect(organic_results, maximum, minimum) ==
  LET raises(i) == Fault(organic_results[i], minimum).kind = "raise"
      appends(i) == ~raises(i) /\ Appended(organic_results[i], minimum) # <<>>
      breaks(i) == /\ ~raises(i)
                   /\ ~BelowMinimum(Rating(organic_results[i]), minimum)
                   /\ Cardinality({j \in 1..i : appends(j)}) >= maximum
      ends == {i \in 1..Len(organic_results) : raises(i) \/ breaks(i)}
      last == IF ends = {} THEN Len(organic_results) ELSE Min(ends)
      kept == SelectSeq([i \in 1..last |-> i], appends)
  IN  IF last >= 1 /\ raises(last) THEN Fault(organic_results[last], minimum)
      ELSE Return([n \in 1..Len(kept) |-> Appended(organic_results[kept[n]], minimum)[1]])

\* The sort key (rating, reviews), compared as Python compares tuples.
KeyEqual(a, b) == a.rating = b.rating /\ a.reviews = b.reviews

KeyLess(a, b) ==
  \/ a.rating < b.rating
  \/ a.rating = b.rating /\ a.reviews.t = b.reviews.t /\ a.reviews.v < b.reviews.v

\* Comparing the keys of a and b raises TypeError: equal ratings, and reviews of which
\* one is a number and the other a string.
Incomparable(a, b) == a.rating = b.rating /\ a.reviews.t # b.reviews.t

\* A position that puts a product before the earlier products with its key.
SortedPositionReversed(prods, i) ==
  1 + Cardinality({j \in 1..Len(prods) : KeyLess(prods[i], prods[j])})
    + Cardinality({j \in (i + 1)..Len(prods) : KeyEqual(prods[j], prods[i])})

\* Where the i-th product stands after the sort: after the products with a greater key
\* and after the earlier products with its key.
SortedPosition(prods, i) ==
  1 + Cardinality({j \in 1..Len(prods) : KeyLess(prods[i], prods[j])})
    + Cardinality({j \in 1..(i - 1) : KeyEqual(prods[j], prods[i])})

\* products.sort(key=(rating, reviews), reverse=True): descending and stable.  Below
\* 64 elements the sort is a binary insertion sort that compares every two elements
\* that end next to each other, so it raises exactly when two products with the same
\* rating have reviews of different types.
Sort(prods) ==
  IF \E a, b \in 1..Len(prods) : Incomparable(prods[a], prods[b])
  THEN Raise("TypeError", "'<' not supported between instances of 'str' and 'int'")
  ELSE Return([n \in 1..Len(prods) |->
                 prods[CHOOSE i \in 1..Len(prods) : SortedPosition(prods, i) = n]])

\* The body of the try statement, given what the secret store and the provider do.
SearchBody(q, maximum, minimum, p) ==
  IF get_serpapi_key(p).kind = "raise" THEN get_serpapi_key(p)
  ELSE IF p.kind = "request_error" THEN Raise("Exception", p.error)
  ELSE The({ IF collected.kind = "raise" THEN collected
             ELSE The({ IF sorted.kind = "raise" THEN sorted
                        ELSE Return([success |-> TRUE,
                                     products |-> sorted.value,
                                     total_results |-> Len(sorted.value),
                                     error |-> None])
                        : sorted \in {Sort(collected.value)} })
             : collected \in {Collect(p.organic_results, maximum, minimum)} })

\* The function without its except clause.
SearchUncaught(q, maximum, minimum, p) == SearchBody(q, maximum, minimum, p)

search_amazon_products(q, maximum, minimum, p) ==
  The({ IF body.kind = "raise"
        THEN Return([success |-> FALSE, products |-> <<>>, total_results |-> 0,
                     error |-> Some(body.error)])
        ELSE body
        : body \in {SearchBody(q, maximum, minimum, p)} })

\* The requests of a call: none when the credential lookup fails before the request.
Requests(params, p) == IF p.kind = "credential_error" THEN <<>> ELSE <<params>>

(***************************************************************************)
(* search_products                                                         *)
(***************************************************************************)
\* max_results as search_products passes it, and the number of products shown.
SearchMaxResults == 12
ShownProducts == 8

QualityWords == {<<"b","e","s","t">>, <<"t","o","p">>, <<"g","o","o","d">>, <<"r","e","c","o","m","m","e","n","d">>}
BudgetWords == {<<"c","h","e","a","p">>, <<"b","u","d","g","e","t">>}

\* A variant list with both optional variants whatever the question holds.
SearchAttemptsAll(q) ==
  The({ <<q, normalized, <<"b","e","s","t"," ","r","a","t","e","d"," ">> \o normalized, <<"b","u","d","g","e","t"," ">> \o normalized>>
        : normalized \in {optimize_search_query(q)} })

\* The query variants, in the order they are tried.
SearchAttempts(q) ==
  The({ <<q, normalized>>
        \o (IF \E word \in QualityWords : Contains(question_lower, word)
            THEN <<<<"b","e","s","t"," ","r","a","t","e","d"," ">> \o normalized>> ELSE <<>>)
        \o (IF \E word \in BudgetWords : Contains(question_lower, word)
            THEN <<<<"b","u","d","g","e","t"," ">> \o normalized>> ELSE <<>>)
        : normalized \in {optimize_search_query(q)}, question_lower \in {Lower(q)} })

\* The test of the loop: the call succeeded and gave at least one product.
Yields(result) == result.success /\ result.products # <<>>

\* search_results.get('error', 'No products found')
ErrorOf(result) ==
  IF result.error = None THEN Some("No products found") ELSE result.error

\* An assignment that keeps the first error recorded.
KeepFirstError(recorded, result) ==
  IF recorded = None THEN ErrorOf(result) ELSE recorded

\* last_error after an attempt that gave nothing.
RecordError(recorded, result) == ErrorOf(result)

\* A loop without its break: a success is followed by the variants left.
LoopEndsAtLast(result, position, attempts) == position >= Len(attempts)

\* Whether the loop over the variants ends after this attempt.
LoopEnds(result, position, attempts) ==
  Yields(result) \/ position >= Len(attempts)

\* A piece of an answer text: its kind, with the text, the query, and the number put in.
Piece(k, s, q, n) == [k |-> k, s |-> s, q |-> q, n |-> n]

\* The first n elements of a list: list[:n].
FirstN(list, n) == SubSeq(list, 1, IF Len(list) < n THEN Len(list) ELSE n)

\* The identifiers of the products shown only.
AsinsShown(found) ==
  [k \in 1..Len(FirstN(found, ShownProducts)) |-> found[k].asin]

\* [p["asin"] for p in products if p.get("asin")]
Asins(found) ==
  LET withAsin(p) == p.asin # ""
      kept == SelectSeq(found, withAsin)
  IN  [k \in 1..Len(kept) |-> kept[k].asin]

\* The answer when no variant gave a product.
NotFoundAnswer(q, recorded) ==
  << Piece("no products found matching", "", q, 0),
     Piece("Error:", IF recorded = None THEN "None" ELSE recorded[1], <<>>, 0) >>

\* The answer listing the first products: the title is sliced, which raises TypeError
\* when the provider gave a title that is no text.
FoundAnswer(q, found) ==
  LET shown == FirstN(found, ShownProducts)
  IN  IF \E k \in 1..Len(shown) : shown[k].title.t # "str"
      THEN Raise("TypeError", "'NoneType' object is not subscriptable")
      ELSE Return(<<Piece("found products for", "", q, Len(found))>>
                  \o [k \in 1..Len(shown) |-> Piece("product", shown[k].asin, <<>>, k)]
                  \o <<Piece("ready to shop", "", <<>>, 0)>>)

\* The body of search_products' try statement after the loop.
SearchProductsBody(q, found, recorded) ==
  IF found = <<>>
  THEN Return([answer |-> NotFoundAnswer(q, recorded), asins |-> <<>>, products |-> <<>>])
  ELSE IF FoundAnswer(q, found).kind = "raise" THEN FoundAnswer(q, found)
  ELSE Return([answer |-> FoundAnswer(q, found).value,
               asins |-> Asins(found),
               products |-> found])

\* search_products without its except clause.
SearchProductsUncaught(q, found, recorded) == SearchProductsBody(q, found, recorded)

\* What search_products returns after its loop.
SearchProductsResult(q, found, recorded) ==
  The({ IF body.kind = "raise"
        THEN Return([answer |-> <<Piece("an error occurred while searching",
                                        body.error, <<>>, 0)>>,
                     asins |-> <<>>,
                     products |-> <<>>])
        ELSE body
        : body \in {SearchProductsBody(q, found, recorded)} })

(***************************************************************************)
(* generate_smart_packing_list                                             *)
(***************************************************************************)
base_items == <<
  <<"t","r","a","v","e","l"," ","b","a","c","k","p","a","c","k">>, <<"p","h","o","n","e"," ","c","h","a","r","g","e","r">>, <<"t","o","i","l","e","t","r","y"," ","b","a","g">>, <<"t","r","a","v","e","l"," ","a","d","a","p","t","e","r">> >>

LongTripWords == {<<"w","e","e","k">>, <<"7"," ","d","a","y">>, <<"l","o","n","g"," ","t","r","i","p">>}
LongTripItems == <<
  <<"l","a","u","n","d","r","y"," ","d","e","t","e","r","g","e","n","t"," ","p","o","d","s">>, <<"e","x","t","r","a"," ","u","n","d","e","r","w","e","a","r">>, <<"m","e","d","i","c","a","t","i","o","n"," ","o","r","g","a","n","i","z","e","r">> >>

ShortTripWords == {<<"w","e","e","k","e","n","d">>, <<"2"," ","d","a","y">>, <<"3"," ","d","a","y">>, <<"s","h","o","r","t"," ","t","r","i","p">>}
ShortTripItems == << <<"t","r","a","v","e","l"," ","s","i","z","e"," ","t","o","i","l","e","t","r","i","e","s">>, <<"c","o","m","p","a","c","t"," ","p","a","c","k","i","n","g"," ","c","u","b","e","s">> >>

\* The dict keeps insertion order: the order of iteration.
climate_items == <<
  [climate |-> <<"t","r","o","p","i","c","a","l">>,
   items |-> << <<"s","u","n","s","c","r","e","e","n"," ","S","P","F"," ","5","0">>, <<"i","n","s","e","c","t"," ","r","e","p","e","l","l","e","n","t">>, <<"l","i","g","h","t","w","e","i","g","h","t"," ","c","l","o","t","h","i","n","g">>,
                <<"s","a","n","d","a","l","s">>, <<"s","u","n"," ","h","a","t">> >>],
  [climate |-> <<"b","e","a","c","h">>,
   items |-> << <<"s","w","i","m","s","u","i","t">>, <<"b","e","a","c","h"," ","t","o","w","e","l">>, <<"w","a","t","e","r","p","r","o","o","f"," ","p","h","o","n","e"," ","c","a","s","e">>,
                <<"f","l","i","p"," ","f","l","o","p","s">>, <<"b","e","a","c","h"," ","b","a","g">> >>],
  [climate |-> <<"c","o","l","d">>,
   items |-> << <<"t","h","e","r","m","a","l"," ","u","n","d","e","r","w","e","a","r">>, <<"w","i","n","t","e","r"," ","j","a","c","k","e","t">>, <<"w","a","r","m"," ","g","l","o","v","e","s">>,
                <<"b","e","a","n","i","e">>, <<"w","o","o","l"," ","s","o","c","k","s">> >>],
  [climate |-> <<"m","o","u","n","t","a","i","n">>,
   items |-> << <<"h","i","k","i","n","g"," ","b","o","o","t","s">>, <<"r","a","i","n"," ","j","a","c","k","e","t">>, <<"f","i","r","s","t"," ","a","i","d"," ","k","i","t">>,
                <<"h","e","a","d","l","a","m","p">>, <<"t","r","e","k","k","i","n","g"," ","p","o","l","e","s">> >>],
  [climate |-> <<"c","i","t","y">>,
   items |-> << <<"c","o","m","f","o","r","t","a","b","l","e"," ","w","a","l","k","i","n","g"," ","s","h","o","e","s">>, <<"d","a","y"," ","p","a","c","k">>, <<"p","o","r","t","a","b","l","e"," ","c","h","a","r","g","e","r">>,
                <<"c","i","t","y"," ","g","u","i","d","e","b","o","o","k">> >>],
  [climate |-> <<"b","u","s","i","n","e","s","s">>,
   items |-> << <<"b","u","s","i","n","e","s","s"," ","a","t","t","i","r","e">>, <<"l","a","p","t","o","p"," ","b","a","g">>, <<"d","r","e","s","s"," ","s","h","o","e","s">>,
                <<"i","r","o","n"," ","t","r","a","v","e","l"," ","s","i","z","e">>, <<"b","u","s","i","n","e","s","s"," ","c","a","r","d","s">> >>],
  [climate |-> <<"c","a","m","p","i","n","g">>,
   items |-> << <<"s","l","e","e","p","i","n","g"," ","b","a","g">>, <<"c","a","m","p","i","n","g"," ","t","e","n","t">>, <<"c","a","m","p","i","n","g"," ","s","t","o","v","e">>,
                <<"w","a","t","e","r"," ","p","u","r","i","f","i","c","a","t","i","o","n"," ","t","a","b","l","e","t","s">>, <<"m","u","l","t","i","-","t","o","o","l">> >>] >>

activities == <<
  [activity |-> <<"p","h","o","t","o","g","r","a","p","h","y">>,
   items |-> << <<"c","a","m","e","r","a"," ","e","q","u","i","p","m","e","n","t">>, <<"e","x","t","r","a"," ","b","a","t","t","e","r","i","e","s">>, <<"m","e","m","o","r","y"," ","c","a","r","d","s">>,
                <<"l","e","n","s"," ","c","l","e","a","n","i","n","g"," ","k","i","t">> >>],
  [activity |-> <<"f","i","t","n","e","s","s">>,
   items |-> << <<"w","o","r","k","o","u","t"," ","c","l","o","t","h","e","s">>, <<"r","u","n","n","i","n","g"," ","s","h","o","e","s">>, <<"f","i","t","n","e","s","s"," ","t","r","a","c","k","e","r">>,
                <<"p","r","o","t","e","i","n"," ","b","a","r","s">> >>],
  [activity |-> <<"c","o","o","k","i","n","g">>,
   items |-> << <<"p","o","r","t","a","b","l","e"," ","c","o","o","k","i","n","g"," ","s","e","t">>, <<"s","p","i","c","e","s"," ","t","r","a","v","e","l"," ","k","i","t">>, <<"c","o","o","l","e","r"," ","b","a","g">>,
                <<"c","u","t","t","i","n","g"," ","b","o","a","r","d">> >>],
  [activity |-> <<"r","e","a","d","i","n","g">>,
   items |-> << <<"e","-","r","e","a","d","e","r">>, <<"r","e","a","d","i","n","g"," ","l","i","g","h","t">>, <<"b","o","o","k"," ","s","t","a","n","d">>,
                <<"b","l","u","e"," ","l","i","g","h","t"," ","g","l","a","s","s","e","s">> >>] >>

\* The if/elif on the duration words.
DurationItems(question_lower) ==
  IF \E word \in LongTripWords : Contains(question_lower, word) THEN LongTripItems
  ELSE IF \E word \in ShortTripWords : Contains(question_lower, word) THEN ShortTripItems
  ELSE <<>>

RECURSIVE ClimateItemsAll(_, _)
\* The loop over climate_items without its break.
ClimateItemsAll(question_lower, i) ==
  IF i > Len(climate_items) THEN <<>>
  ELSE (IF Contains(question_lower, climate_items[i].climate) THEN climate_items[i].items
        ELSE <<>>)
       \o ClimateItemsAll(question_lower, i + 1)

RECURSIVE ClimateItems(_, _)
\* The loop over climate_items from the i-th on, with its break.
ClimateItems(question_lower, i) ==
  IF i > Len(climate_items) THEN <<>>
  ELSE IF Contains(question_lower, climate_items[i].climate) THEN climate_items[i].items
  ELSE ClimateItems(question_lower, i + 1)

RECURSIVE ActivityItemsFirst(_, _)
\* The loop over activities with a break after the first match.
ActivityItemsFirst(question_lower, i) ==
  IF i > Len(activities) THEN <<>>
  ELSE IF Contains(question_lower, activities[i].activity) THEN activities[i].items
  ELSE ActivityItemsFirst(question_lower, i + 1)

RECURSIVE ActivityItems(_, _)
\* The loop over activities from the i-th on.
ActivityItems(question_lower, i) ==
  IF i > Len(activities) THEN <<>>
  ELSE (IF Contains(question_lower, activities[i].activity) THEN activities[i].items
        ELSE <<>>)
       \o ActivityItems(question_lower, i + 1)

\* list(dict.fromkeys(all_items)): the first of each is kept.
Dedupe(all_items) ==
  LET first(i) == \A k \in 1..(i - 1) : all_items[k] # all_items[i]
      kept == SelectSeq([i \in 1..Len(all_items) |-> i], first)
  IN  [n \in 1..Len(kept) |-> all_items[kept[n]]]

\* all_items built as packing_items + base_items.
SmartPackingListBaseLast(q) ==
  The({ Dedupe(DurationItems(question_lower) \o ClimateItems(question_lower, 1)
                 \o ActivityItems(question_lower, 1) \o base_items)
        : question_lower \in {Lower(q)} })

generate_smart_packing_list(q) ==
  The({ Dedupe(base_items \o DurationItems(question_lower)
                 \o ClimateItems(question_lower, 1)
                 \o ActivityItems(question_lower, 1))
        : question_lower \in {Lower(q)} })

(***************************************************************************)
(* generate_packing_list                                                   *)
(***************************************************************************)
\* The number of items searched, max_results as generate_packing_list passes it, and
\* the number of products kept per item.
PriorityItems == 10
PackingMaxResults == 4
TopProducts == 3

\* The three query variants of an item.
\* A list of four variants.
SearchQueriesFour(name) == <<<<"t","r","a","v","e","l"," ">> \o name, <<"b","e","s","t"," ">> \o name, name, <<"c","h","e","a","p"," ">> \o name>>

SearchQueries(name) == <<<<"t","r","a","v","e","l"," ">> \o name, <<"b","e","s","t"," ">> \o name, name>>

\* str.title(), one character: upper case after a character that is no letter.
IsLetter(c) ==
  \/ \E k \in 1..Len(UpperCase) : UpperCase[k] = c
  \/ \E k \in 1..Len(LowerCase) : LowerCase[k] = c

UpperChar(c) ==
  IF \E k \in 1..Len(LowerCase) : LowerCase[k] = c
  THEN UpperCase[CHOOSE k \in 1..Len(LowerCase) : LowerCase[k] = c]
  ELSE c

\* str.title()
TitleCase(s) ==
  [k \in 1..Len(s) |->
     IF k = 1 \/ ~IsLetter(s[k - 1]) THEN UpperChar(s[k]) ELSE LowerChar(s[k])]

\* The part of the answer for an item with products: len(product['title']) raises
\* TypeError when the provider gave a title that is no text.
ItemAnswer(name, found) ==
  IF \E k \in 1..Len(found) : found[k].title.t # "str"
  THEN Raise("TypeError", "object of type 'NoneType' has no len()")
  ELSE Return(<<Piece("item", "", TitleCase(name), 0),
                Piece("top recommendations", "", <<>>, 0)>>
              \o [k \in 1..Len(found) |-> Piece("product", found[k].asin, <<>>, k)])

\* The part of the answer for an item without products.
NoItemAnswer(name) ==
  <<Piece("item", "", TitleCase(name), 0),
    Piece("no specific products found", "", <<>>, 0)>>

\* A summary that is appended to the answer whatever was found.
SummaryAppended(q, text, found, failed) ==
  text \o <<Piece("found products for items", "", <<>>, Len(found))>>
       \o (IF failed # <<>>
           THEN <<Piece("manual search needed for", "", <<>>, Len(failed))>> ELSE <<>>)
       \o <<Piece("tip", "", <<>>, 0)>>

\* The summary: appended to the answer, or the one message that replaces it.
Summary(q, text, found, failed) ==
  IF found # <<>>
  THEN text \o <<Piece("found products for items", "", <<>>, Len(found))>>
            \o (IF failed # <<>>
                THEN <<Piece("manual search needed for", "", <<>>, Len(failed))>> ELSE <<>>)
            \o <<Piece("tip", "", <<>>, 0)>>
  ELSE <<Piece("unable to find specific product recommendations", "", q, 0)>>

\* What the except clause of generate_packing_list returns.
PackingError(text) ==
  Return([answer |-> <<Piece("an error occurred while generating", text, <<>>, 0)>>,
          asins |-> <<>>,
          items |-> <<>>])

(***************************************************************************)
(* The text functions applied to bounded inputs.                           *)
(***************************************************************************)
WordPieces == {
  <<"I">>, <<"n","e","e","d">>, <<" ">>, <<"h","i","k","i","n","g">>, <<"t","r","a","v","e","l">>, <<"h","i","k","i","n","g"," ","o","u","t","d","o","o","r"," ","g","e","a","r">>,
  <<"f","i","n","d"," ","m","e">> }

PricePieces == {
  <<"u","n","d","e","r"," ","$","5","0">>, <<"$","2","0","-","$","1","0","0">>, <<"b","e","t","w","e","e","n"," ","$","3","0"," ","a","n","d"," ","$","1","0">>, <<"5"," ","t","o"," ","9">>,
  <<"b","e","l","o","w"," ","0">>, <<"l","e","s","s"," ","t","h","a","n"," ","7">>, <<" ">> }

\* The examples of the specification and of the docstrings.
TextExamples == {
  <<"I"," ","n","e","e","d"," ","h","i","k","i","n","g"," ","b","o","o","t","s">>, <<"u","n","d","e","r"," ","$","5","0">>, <<"$","2","0","-","$","1","0","0">>, <<"n","i","c","e"," ","s","h","o","e","s">>,
  <<"b","e","t","w","e","e","n"," ","$","1","0"," ","a","n","d"," ","$","3","0">> }

RECURSIVE TextsOf(_, _)
\* The texts of at most n pieces.
TextsOf(pieces, n) ==
  IF n = 0 THEN {<<>>}
  ELSE {t \o p : t \in TextsOf(pieces, n - 1), p \in pieces} \cup TextsOf(pieces, n - 1)

TextInputs ==
  TextsOf(WordPieces, MaxPieces) \cup TextsOf(PricePieces, MaxPricePieces) \cup TextExamples

InitText ==
  /\ pc = "text"
  /\ query \in TextInputs
  /\ optimized = <<>>
  /\ price_range = <<None, None>>
  /\ max_results = 0
  /\ min_rating = 0
  /\ provider = NoOutcome
  /\ search_results = NoOutcome
  /\ calls = <<>>
  /\ searches = <<>>
  /\ question = <<>>
  /\ search_attempts = <<>>
  /\ attempt = 0
  /\ products = <<>>
  /\ last_error = None
  /\ ret = NoOutcome
  /\ packing_items = <<>>
  /\ priority_items = <<>>
  /\ item = 0
  /\ variant = 0
  /\ results = <<>>
  /\ asins_dict = <<>>
  /\ failed_searches = <<>>
  /\ answer = <<>>
  /\ provider_calls = 0
  /\ user_id = ""
  /\ gateway = NoOutcome
  /\ requests = <<>>
  /\ yielded = <<>>

CallOptimize ==
  /\ pc = "text"
  /\ optimized' = optimize_search_query(query)
  /\ pc' = "optimized"
  /\ UNCHANGED <<gatewayVars, query, price_range, providerVars, searchVars, packingVars>>

CallExtractPrice ==
  /\ pc = "text"
  /\ price_range' = extract_price_range(query)
  /\ pc' = "priced"
  /\ UNCHANGED <<gatewayVars, query, optimized, providerVars, searchVars, packingVars>>

NextText == CallOptimize \/ CallExtractPrice

SpecText == InitText /\ [][NextText]_vars

(***************************************************************************)
(* generate_smart_packing_list on bounded trip descriptions.               *)
(***************************************************************************)
DescriptionPieces == {
  <<"w","e","e","k"," ">>, <<"w","e","e","k","e","n","d"," ">>, <<"3"," ","d","a","y"," ">>, <<"l","o","n","g"," ","t","r","i","p"," ">>, <<"T","r","o","p","i","c","a","l"," ">>, <<"b","e","a","c","h"," ">>,
  <<"c","o","l","d"," ">>, <<"c","a","m","p","i","n","g"," ">>, <<"p","h","o","t","o","g","r","a","p","h","y"," ">>, <<"f","i","t","n","e","s","s"," ">>, <<"r","e","a","d","i","n","g"," ">>, <<"H","a","w","a","i","i"," ">> }

\* The example of the specification, and descriptions with one keyword.
DescriptionExamples == {
  <<"b","e","a","c","h"," ","v","a","c","a","t","i","o","n"," ","f","o","r"," ","a"," ","w","e","e","k">>, <<"w","e","e","k","e","n","d"," ","t","r","i","p">>, <<"s","h","o","r","t"," ","t","r","i","p">>, <<"2"," ","d","a","y"," ","h","i","k","e">>,
  <<"7"," ","d","a","y"," ","c","r","u","i","s","e">>, <<"c","i","t","y"," ","b","r","e","a","k",","," ","b","u","s","i","n","e","s","s"," ","a","n","d"," ","c","o","o","k","i","n","g">>, <<"m","o","u","n","t","a","i","n">>, <<"t","r","i","p">> }

DescriptionInputs == TextsOf(DescriptionPieces, MaxWords) \cup DescriptionExamples

InitList ==
  /\ pc = "description"
  /\ question \in DescriptionInputs
  /\ query = <<>>
  /\ optimized = <<>>
  /\ price_range = <<None, None>>
  /\ max_results = 0
  /\ min_rating = 0
  /\ provider = NoOutcome
  /\ search_results = NoOutcome
  /\ calls = <<>>
  /\ searches = <<>>
  /\ search_attempts = <<>>
  /\ attempt = 0
  /\ products = <<>>
  /\ last_error = None
  /\ ret = NoOutcome
  /\ packing_items = <<>>
  /\ priority_items = <<>>
  /\ item = 0
  /\ variant = 0
  /\ results = <<>>
  /\ asins_dict = <<>>
  /\ failed_searches = <<>>
  /\ answer = <<>>
  /\ provider_calls = 0
  /\ user_id = ""
  /\ gateway = NoOutcome
  /\ requests = <<>>
  /\ yielded = <<>>

CallSmartPackingList ==
  /\ pc = "description"
  /\ packing_items' = generate_smart_packing_list(question)
  /\ pc' = "listed"
  /\ UNCHANGED <<gatewayVars, query, textVars, providerVars, searchVars, priority_items, item,
                 variant, results, asins_dict, failed_searches, answer, provider_calls>>

NextList == CallSmartPackingList

SpecList == InitList /\ [][NextList]_vars

(***************************************************************************)
(* search_amazon_products applied to bounded provider responses.           *)
(***************************************************************************)
Number(n) == [t |-> "int", v |-> n, s |-> ""]
Missing == [t |-> "missing", v |-> 0, s |-> ""]
Raw(t, v) == [t |-> t, v |-> v, s |-> ""]

Title(s) == [t |-> "str", s |-> s]
NoTitle == [t |-> "none", s |-> ""]

Record(asin, title, rating, reviews, price) ==
  [shape |-> "dict", asin |-> asin, title |-> Title(title), rating |-> rating,
   reviews |-> reviews, price |-> price]

\* The records a response is drawn from: equal keys (A and B), a rating below the
\* default minimum (C), no identifier (D), unknown ratings (E and H), reviews given as
\* a string (F), a higher rating with fewer reviews (G), a price string without a digit
\* (I), a rating between the default minimum and the stricter one (J), and an entry
\* that is no dict.
RawRecords == {
  Record("A", "Tent", Raw("num", 45), Number(10), Raw("str", 1999)),
  Record("B", "Tarp", Raw("str", 45), Number(10), Raw("dict", 500)),
  Record("C", "Mat", Raw("num", 20), Number(50), Raw("num", 900)),
  Record("", "Ad", Raw("num", 50), Number(7), Missing),
  Record("E", "Rope", Raw("text", 0), Missing, [t |-> "text", v |-> 0, s |-> "see options"]),
  Record("F", "Pegs", Raw("num", 45), Raw("str", 7), Missing),
  Record("G", "Lamp", Raw("num", 50), Number(3), Raw("num", 1250)),
  Record("H", "Pole", Missing, Number(9), Raw("num", 300)),
  Record("I", "Bag", Raw("num", 40), Number(1), Raw("comma", 0)),
  Record("J", "Cup", Raw("num", 40), Number(2), Raw("num", 700)),
  [shape |-> "str"] }

RECURSIVE ResponsesOf(_)
\* The responses of at most n records.
ResponsesOf(n) ==
  IF n = 0 THEN {<<>>}
  ELSE {Append(r, x) : r \in ResponsesOf(n - 1), x \in RawRecords} \cup ResponsesOf(n - 1)

CredentialErrors == {
  [kind |-> "credential_error",
   error |-> "SSM parameter not found: /concierge-agent/shopping/serp-api-key"] }

RequestErrors == {[kind |-> "request_error", error |-> "Connection timed out"]}

Response(organic_results) == [kind |-> "response", organic_results |-> organic_results]

ProviderOutcomes ==
  CredentialErrors \cup RequestErrors \cup {Response(r) : r \in ResponsesOf(MaxRecords)}

ProviderQueries == {
  <<"t","e","n","t">>, <<"t","r","a","v","e","l"," ","t","e","n","t"," ","u","n","d","e","r"," ","$","5","0">>, <<"t","e","n","t"," ","b","e","t","w","e","e","n"," ","$","3","0"," ","a","n","d"," ","$","1","0">>, <<"t","e","n","t"," ","0"," ","t","o"," ","9">>,
  <<"t","e","n","t"," ","u","n","d","e","r"," ","$","0">> }

\* The default, a stricter minimum, and the values of max_results that cut a response
\* short, with the one generate_packing_list passes.
MinRatings == {DefaultMinRating, 45}
MaxResultsDrawn == {1, 2, 4}

InitProvider ==
  /\ pc = "search"
  /\ query \in ProviderQueries
  /\ max_results \in MaxResultsDrawn
  /\ min_rating \in MinRatings
  /\ optimized = <<>>
  /\ price_range = <<None, None>>
  /\ provider = NoOutcome
  /\ search_results = NoOutcome
  /\ calls = <<>>
  /\ searches = <<>>
  /\ question = <<>>
  /\ search_attempts = <<>>
  /\ attempt = 0
  /\ products = <<>>
  /\ last_error = None
  /\ ret = NoOutcome
  /\ packing_items = <<>>
  /\ priority_items = <<>>
  /\ item = 0
  /\ variant = 0
  /\ results = <<>>
  /\ asins_dict = <<>>
  /\ failed_searches = <<>>
  /\ answer = <<>>
  /\ provider_calls = 0
  /\ user_id = ""
  /\ gateway = NoOutcome
  /\ requests = <<>>
  /\ yielded = <<>>

CallSearchAmazon ==
  /\ pc = "search"
  /\ \E params \in {Params(query)}, p \in ProviderOutcomes :
       /\ provider' = p
       /\ search_results' = search_amazon_products(query, max_results, min_rating, p)
       /\ calls' = calls \o Requests(params, p)
  /\ searches' = Append(searches, query)
  /\ pc' = "searched"
  /\ UNCHANGED <<gatewayVars, query, max_results, min_rating, textVars, question, search_attempts,
                 attempt, products, last_error, ret, packingVars>>

NextProvider == CallSearchAmazon

SpecProvider == InitProvider /\ [][NextProvider]_vars

(***************************************************************************)
(* search_products and generate_packing_list against a provider.           *)
(***************************************************************************)
Plain(asin, title, rating, reviews) ==
  Record(asin, title, Raw("num", rating), Number(reviews), Raw("num", 1000 + reviews))

\* A response with more records than search_products asks for.
LongResponse ==
  << Plain("P01", "Boot 1", 40, 11), Plain("P02", "Boot 2", 45, 12),
     Plain("P03", "Boot 3", 50, 13), Plain("P04", "Boot 4", 40, 14),
     Plain("P05", "Boot 5", 45, 15), Plain("P06", "Boot 6", 50, 16),
     Plain("P07", "Boot 7", 40, 17), Plain("P08", "Boot 8", 45, 18),
     Plain("P09", "Boot 9", 50, 19), Plain("P10", "Boot 10", 40, 20),
     Plain("P11", "Boot 11", 45, 21), Plain("P12", "Boot 12", 50, 22),
     Plain("P13", "Boot 13", 40, 23) >>

\* A record whose title is None.
Untitled == [Plain("U", "", 45, 5) EXCEPT !.title = NoTitle]

\* What the secret store and the provider may do with one call.
Outcomes ==
  CredentialErrors \cup RequestErrors \cup
  { Response(<<>>),
    Response(<<Plain("C", "Mat", 20, 50)>>),
    Response(<<Plain("A", "Tent", 45, 10), Plain("", "Ad", 50, 7), Plain("G", "Lamp", 50, 3)>>),
    Response(<<Plain("B", "Tarp", 45, 10)>>),
    Response(<<Plain("A", "Tent", 45, 10), Untitled>>),
    Response(LongResponse) }

Questions == {
  <<"t","e","n","t">>,
  <<"I"," ","n","e","e","d"," ","h","i","k","i","n","g"," ","b","o","o","t","s">>,
  <<"b","e","s","t"," ","c","h","e","a","p"," ","t","r","a","v","e","l"," ","t","e","n","t"," ","u","n","d","e","r"," ","$","5","0">>,
  <<"g","o","o","d"," ","h","i","k","i","n","g"," ","t","e","n","t">>,
  <<"B","u","d","g","e","t"," ","t","e","n","t">>,
  <<"h","i","k","i","n","g"," ","t","r","a","v","e","l"," ","t","e","n","t">> }

Init ==
  /\ pc = "idle"
  /\ query = <<>>
  /\ optimized = <<>>
  /\ price_range = <<None, None>>
  /\ max_results = 0
  /\ min_rating = 0
  /\ provider = NoOutcome
  /\ search_results = NoOutcome
  /\ calls = <<>>
  /\ searches = <<>>
  /\ question = <<>>
  /\ search_attempts = <<>>
  /\ attempt = 0
  /\ products = <<>>
  /\ last_error = None
  /\ ret = NoOutcome
  /\ packing_items = <<>>
  /\ priority_items = <<>>
  /\ item = 0
  /\ variant = 0
  /\ results = <<>>
  /\ asins_dict = <<>>
  /\ failed_searches = <<>>
  /\ answer = <<>>
  /\ provider_calls = 0
  /\ user_id = ""
  /\ gateway = NoOutcome
  /\ requests = <<>>
  /\ yielded = <<>>

\* search_products up to its loop.
SearchProductsBegin ==
  /\ pc = "idle"
  /\ \E q \in Questions :
       /\ question' = q
       /\ search_attempts' = SearchAttempts(q)
  /\ attempt' = 1
  /\ products' = <<>>
  /\ last_error' = None
  /\ pc' = "search_products"
  /\ UNCHANGED <<gatewayVars, query, textVars, providerVars, searches, ret, packingVars>>

\* One turn of the loop over search_attempts, with the call of search_amazon_products.
SearchProductsAttempt ==
  /\ pc = "search_products"
  /\ query' = search_attempts[attempt]
  /\ max_results' = SearchMaxResults
  /\ min_rating' = DefaultMinRating
  /\ searches' = Append(searches, search_attempts[attempt])
  /\ \E params \in {Params(search_attempts[attempt])}, p \in Outcomes :
       \E result \in {search_amazon_products(search_attempts[attempt], SearchMaxResults,
                                             DefaultMinRating, p).value} :
           /\ provider' = p
           /\ search_results' = Return(result)
           /\ calls' = calls \o Requests(params, p)
           /\ products' = IF Yields(result) THEN result.products ELSE products
           /\ last_error' = IF Yields(result) THEN last_error
                            ELSE RecordError(last_error, result)
           /\ pc' = IF LoopEnds(result, attempt, search_attempts)
                    THEN "search_products_return" ELSE "search_products"
  /\ attempt' = attempt + 1
  /\ UNCHANGED <<gatewayVars, textVars, question, search_attempts, ret, packingVars>>

\* search_products after its loop: the answer, or the except clause.
SearchProductsReturn ==
  /\ pc = "search_products_return"
  /\ ret' = SearchProductsResult(question, products, last_error)
  /\ pc' = "search_products_done"
  /\ UNCHANGED <<gatewayVars, query, textVars, providerVars, searches, question, search_attempts,
                 attempt, products, last_error, packingVars>>

Descriptions == {<<"t","r","i","p">>, <<"b","e","a","c","h"," ","w","e","e","k"," ","p","h","o","t","o","g","r","a","p","h","y">>}

\* A response with a record without identifier before more records than
\* generate_packing_list asks for.
PackingResponse == <<Plain("", "Ad", 50, 7)>> \o FirstN(LongResponse, PackingMaxResults + 1)

PackingOutcomes ==
  RequestErrors \cup
  { Response(<<>>),
    Response(PackingResponse),
    Response(<<Plain("A", "Tent", 45, 10), Untitled>>) }

\* The outcomes drawn where the provider requests are counted: a response without
\* records and a response with products.
CountedOutcomes == {Response(<<>>), Response(PackingResponse)}

\* generate_packing_list up to its loop.
PackingBegin ==
  /\ pc = "idle"
  /\ \E q \in Descriptions :
     \E list \in {generate_smart_packing_list(q)} :
       /\ question' = q
       /\ packing_items' = list
       /\ priority_items' = FirstN(list, PriorityItems)
       /\ answer' = <<Piece("smart packing list for", "", q, 0)>>
  /\ item' = 1
  /\ variant' = 1
  /\ results' = <<>>
  /\ asins_dict' = <<>>
  /\ failed_searches' = <<>>
  /\ provider_calls' = 0
  /\ pc' = "generate_packing_list"
  /\ UNCHANGED <<gatewayVars, query, textVars, providerVars, searches, search_attempts, attempt,
                 products, last_error, ret>>

\* A loop over priority_items that an item without products ends.
AbortAfterFailedItem(last) == "generate_packing_list_return"

\* Where generate_packing_list goes on after an item without products: to the next
\* item, or past the loop after the last one.
AfterFailedItem(last) ==
  IF last THEN "generate_packing_list_return" ELSE "generate_packing_list"

\* One turn of the loop over an item's search_queries, with the call of
\* search_amazon_products; after the last turn for the item, the rest of the turn of
\* the loop over priority_items.
PackingTurn(outcomes, counted) ==
  /\ pc = "generate_packing_list"
  /\ item <= Len(priority_items)
  /\ \E name \in {priority_items[item]}, last \in {item = Len(priority_items)} :
     \E search_query \in {SearchQueries(name)[variant]}, p \in outcomes :
     \E params \in {Params(search_query)},
        result \in {search_amazon_products(search_query, PackingMaxResults,
                                           DefaultMinRating, p).value} :
     \E found \in {FirstN(result.products, TopProducts)} :
     \E text \in {IF Yields(result) THEN ItemAnswer(name, found) ELSE NoOutcome} :
       /\ query' = search_query
       /\ max_results' = PackingMaxResults
       /\ min_rating' = DefaultMinRating
       /\ searches' = (IF variant = 1 THEN <<>> ELSE searches) \o <<search_query>>
       /\ provider' = p
       /\ search_results' = Return(result)
       /\ calls' = (IF variant = 1 THEN <<>> ELSE calls) \o Requests(params, p)
       /\ provider_calls' = provider_calls + (IF counted THEN Len(Requests(params, p)) ELSE 0)
       /\ IF text.kind = "raise"
          THEN /\ ret' = PackingError(text.error)
               /\ pc' = "generate_packing_list_done"
               /\ asins_dict' = Append(asins_dict, [item |-> name, asins |-> Asins(found)])
               /\ UNCHANGED <<item, variant, results, failed_searches, answer>>
          ELSE IF Yields(result)
          THEN /\ asins_dict' = Append(asins_dict, [item |-> name, asins |-> Asins(found)])
               /\ answer' = answer \o text.value
               /\ results' = Append(results, [item |-> name, products |-> found])
               /\ item' = item + 1
               /\ variant' = 1
               /\ pc' = IF last THEN "generate_packing_list_return" ELSE pc
               /\ UNCHANGED <<failed_searches, ret>>
          ELSE IF variant < Len(SearchQueries(name))
          THEN /\ variant' = variant + 1
               /\ UNCHANGED <<item, results, asins_dict, failed_searches, answer, ret, pc>>
          ELSE /\ failed_searches' = Append(failed_searches, name)
               /\ answer' = answer \o NoItemAnswer(name)
               /\ item' = item + 1
               /\ variant' = 1
               /\ pc' = AfterFailedItem(last)
               /\ UNCHANGED <<results, asins_dict, ret>>
  /\ UNCHANGED <<gatewayVars, textVars, question, search_attempts, attempt, products, last_error,
                 packing_items, priority_items>>

PackingAttempt == PackingTurn(PackingOutcomes, FALSE)

\* The same turn, with the history of the provider requests made.
PackingAttemptCounted == PackingTurn(CountedOutcomes, TRUE)

\* generate_packing_list after its loop: the summary and the return.
PackingReturn ==
  /\ pc = "generate_packing_list_return"
  /\ ret' = Return([answer |-> Summary(question, answer, results, failed_searches),
                    asins |-> asins_dict,
                    items |-> results])
  /\ pc' = "generate_packing_list_done"
  /\ UNCHANGED <<gatewayVars, query, textVars, providerVars, searches, question, search_attempts,
                 attempt, products, last_error, packing_items, priority_items, item,
                 variant, results, asins_dict, failed_searches, answer, provider_calls>>

Next ==
  \/ SearchProductsBegin
  \/ SearchProductsAttempt
  \/ SearchProductsReturn
  \/ PackingBegin
  \/ PackingAttempt
  \/ PackingReturn

Spec == Init /\ [][Next]_vars

(***************************************************************************)
(* generate_packing_list alone, with the history of its provider requests. *)
(***************************************************************************)
NextPacking == PackingBegin \/ PackingAttemptCounted \/ PackingReturn

SpecPacking == Init /\ [][NextPacking]_vars

(***************************************************************************)
(* Every entry point: search_amazon_products called directly, or through   *)
(* search_products and generate_packing_list.                              *)
(***************************************************************************)
InitAll == InitProvider \/ Init

NextAll == NextProvider \/ Next

SpecAll == InitAll /\ [][NextAll]_vars

(***************************************************************************)
(* shopping_assistant: the direct calls of the gateway                     *)
(***************************************************************************)
\* The words of a query that select the packing-list tool.
PackingWords == {<<"p","a","c","k","i","n","g">>, <<"p","a","c","k">>, <<"t","r","i","p">>, <<"v","a","c","a","t","i","o","n">>, <<"t","r","a","v","e","l"," ","l","i","s","t">>}

tool_name(q) ==
  IF \E lowered \in {Lower(q)} : \E word \in PackingWords : Contains(lowered, word)
  THEN "shoppingtools___generate_packinglist_with_productASINS"
  ELSE "shoppingtools___single_productsearch"

\* The request that opens the connection.
init_request ==
  [id |-> 1, method |-> "initialize", name |-> "", user_id |-> "", question |-> <<>>]

\* The request that calls the tool.
search_request(q, user) ==
  [id |-> 2, method |-> "tools/call", name |-> tool_name(q),
   user_id |-> IF user = "" THEN "anonymous" ELSE user, question |-> q]

\* A record the generator yields: its key, what the text is, and the text (for the
\* fallback, the query it quotes).
Yield(key, kind, text) == [key |-> key, kind |-> kind, text |-> text]

fallback_response(q) == Yield("result", "fallback", q)

\* A test that lets every status pass.
StatusAny(status) == TRUE

\* The status the two requests go on with.
StatusOk(status) == status = 200

\* The text of the first content entry: what it is, and what json.loads makes of it.
TextContent(raw, loads, parsed) == [raw |-> raw, loads |-> loads, answer |-> parsed]

NoText == TextContent(<<>>, "invalid", <<>>)

\* A response body: what json() makes of it, whether it has an 'error' member, its
\* 'result' member, the content list of the result and the text of its first entry.
Body(json, error, result, content, text) ==
  [json |-> json, error |-> error, result |-> result, content |-> content, text |-> text]

\* Lines 204 to 227: the record yielded for the body of a response with status 200,
\* or the exception raised on the way.
Extract(body) ==
  IF body.json = "invalid"
  THEN Raise("JSONDecodeError", "Expecting value")
  ELSE IF body.json = "null"
  THEN Raise("TypeError", "argument of type 'NoneType' is not iterable")
  ELSE IF body.json = "list"
  THEN Raise("AttributeError", "'list' object has no attribute 'get'")
  ELSE IF body.error
  THEN Raise("Exception", "Shopping tool error")
  ELSE IF body.result = "null"
  THEN Raise("AttributeError", "'NoneType' object has no attribute 'get'")
  ELSE IF body.result = "dict" /\ body.content = "text" /\ body.text.raw # <<>>
  THEN (IF body.text.loads = "number"
        THEN Raise("TypeError", "argument of type 'int' is not iterable")
        ELSE IF body.text.loads = "dict" /\ body.text.answer # None
        THEN Return(<<Yield("result", "answer", body.text.answer[1])>>)
        ELSE Return(<<Yield("result", "raw", body.text.raw)>>))
  ELSE Return(<<Yield("result", "unformatted", <<>>)>>)

\* An except clause that reports the exception instead.
DirectErrorReported(q, error) == <<Yield("error", "exception", <<>>)>>

\* The except clause of the direct call: the fallback is yielded whatever was raised.
DirectError(q, error) == <<fallback_response(q)>>

\* The outer except clause.
OuterError(error) == <<Yield("error", "exception", <<>>)>>

\* What the lookup of the gateway URL and of the access token may do.
CredentialOutcomes == {
  [kind |-> "credentials"],
  [kind |-> "credential_error", error |-> "SSM parameter not found"],
  [kind |-> "credential_error", error |-> "token request failed"] }

\* What a post may do: raise (connection refused, timed out) or return a response.
GatewayResponse(status, body) == [kind |-> "response", status |-> status, body |-> body]

NoBody == Body("invalid", FALSE, "missing", "missing", NoText)

PostErrors == {
  [kind |-> "request_error", error |-> "ConnectionError"],
  [kind |-> "request_error", error |-> "ReadTimeout"] }

InitOutcomes ==
  PostErrors \cup {GatewayResponse(status, NoBody) : status \in {200, 401, 500}}

\* The bodies of a tools/call response: no JSON, null, a list, an error member, a
\* null result, no content, a content entry without text, a text that is no JSON, a
\* text that is a JSON number, a JSON object without answer, and one with an answer.
Bodies == {
  NoBody,
  Body("null", FALSE, "missing", "missing", NoText),
  Body("list", FALSE, "missing", "missing", NoText),
  Body("dict", TRUE, "missing", "missing", NoText),
  Body("dict", TRUE, "dict", "text",
       TextContent(<<"{","'","a","n","s","w","e","r","'",":"," ","'","x","'","}">>, "dict", Some(<<"F","o","u","n","d"," ","3"," ","t","e","n","t","s">>))),
  Body("dict", FALSE, "missing", "missing", NoText),
  Body("dict", FALSE, "null", "missing", NoText),
  Body("dict", FALSE, "dict", "empty", NoText),
  Body("dict", FALSE, "dict", "notext", NoText),
  Body("dict", FALSE, "dict", "text", TextContent(<<"S","e","r","v","i","c","e"," ","b","u","s","y">>, "invalid", None)),
  Body("dict", FALSE, "dict", "text", TextContent(<<"5">>, "number", None)),
  Body("dict", FALSE, "dict", "text", TextContent(<<"{","'","a","s","i","n","s","'",":"," ","[","]","}">>, "dict", None)),
  Body("dict", FALSE, "dict", "text",
       TextContent(<<"{","'","a","n","s","w","e","r","'",":"," ","'","x","'","}">>, "dict", Some(<<"F","o","u","n","d"," ","3"," ","t","e","n","t","s">>))) }

SearchOutcomes ==
  PostErrors \cup {GatewayResponse(status, NoBody) : status \in {404, 502}}
    \cup {GatewayResponse(200, body) : body \in Bodies}

GatewayQueries == {
  <<"f","i","n","d"," ","m","e"," ","a"," ","t","e","n","t">>, <<"P","a","c","k","i","n","g"," ","l","i","s","t"," ","f","o","r"," ","R","o","m","e">>, <<"b","e","a","c","h"," ","v","a","c","a","t","i","o","n">>, <<"b","a","c","k","p","a","c","k">> }

UserIds == {"", "u1"}

InitGateway ==
  /\ pc = "shopping_assistant"
  /\ query \in GatewayQueries
  /\ user_id \in UserIds
  /\ gateway = NoOutcome
  /\ requests = <<>>
  /\ yielded = <<>>
  /\ optimized = <<>>
  /\ price_range = <<None, None>>
  /\ max_results = 0
  /\ min_rating = 0
  /\ provider = NoOutcome
  /\ search_results = NoOutcome
  /\ calls = <<>>
  /\ searches = <<>>
  /\ question = <<>>
  /\ search_attempts = <<>>
  /\ attempt = 0
  /\ products = <<>>
  /\ last_error = None
  /\ ret = NoOutcome
  /\ packing_items = <<>>
  /\ priority_items = <<>>
  /\ item = 0
  /\ variant = 0
  /\ results = <<>>
  /\ asins_dict = <<>>
  /\ failed_searches = <<>>
  /\ answer = <<>>
  /\ provider_calls = 0

\* The generator's end: it returns after a yield, whatever it yielded.
Finished(records) ==
  /\ yielded' = yielded \o records
  /\ ret' = Return(<<>>)
  /\ pc' = "shopping_assistant_done"

\* Lines 129 to 142: the imports, and the lookup of the URL and of the token.
GetCredentials ==
  /\ pc = "shopping_assistant"
  /\ \/ /\ gateway' = [kind |-> "import_error", error |-> "No module named 'requests'"]
        /\ Finished(OuterError(gateway'))
     \/ \E o \in CredentialOutcomes :
          /\ gateway' = o
          /\ IF o.kind = "credential_error"
             THEN Finished(DirectError(query, o))
             ELSE /\ pc' = "initialize"
                  /\ UNCHANGED <<yielded, ret>>
  /\ UNCHANGED <<query, user_id, requests, textVars, providerVars, searches, question,
                 search_attempts, attempt, products, last_error, packingVars>>

\* Lines 145 to 170: the initialize request and the test of its status.
Initialize ==
  /\ pc = "initialize"
  /\ requests' = Append(requests, init_request)
  /\ \E o \in InitOutcomes :
       /\ gateway' = o
       /\ IF o.kind = "response" /\ StatusOk(o.status)
          THEN /\ pc' = "tools_call"
               /\ UNCHANGED <<yielded, ret>>
          ELSE Finished(DirectError(query, o))
  /\ UNCHANGED <<query, user_id, textVars, providerVars, searches, question,
                 search_attempts, attempt, products, last_error, packingVars>>

\* Lines 173 to 227: the tools/call request, the test of its status, and the record
\* made of its body.
ToolsCall ==
  /\ pc = "tools_call"
  /\ requests' = Append(requests, search_request(query, user_id))
  /\ \E o \in SearchOutcomes :
       /\ gateway' = o
       /\ IF o.kind = "response" /\ StatusOk(o.status)
          THEN \E extracted \in {Extract(o.body)} :
                 IF extracted.kind = "raise"
                 THEN Finished(DirectError(query, extracted))
                 ELSE Finished(extracted.value)
          ELSE Finished(DirectError(query, o))
  /\ UNCHANGED <<query, user_id, textVars, providerVars, searches, question,
                 search_attempts, attempt, products, last_error, packingVars>>

NextGateway == GetCredentials \/ Initialize \/ ToolsCall

SpecGateway == InitGateway /\ [][NextGateway]_vars

(***************************************************************************)
(* Properties of the text functions.                                       *)
(***************************************************************************)
\* The patterns that match the lower-cased text somewhere.
Matching(q) == {i \in 1..Len(price_patterns) : Search(price_patterns[i], Lower(q)) # <<>>}

\* The 'under N', 'below N' and 'less than N' forms: the first three patterns.
CeilingForms == 1..3

\* C8: extract_price_range uses only the first matching pattern in priority order:
\* a matching 'under N', 'below N' or 'less than N' form gives (None, N) even when a
\* range form matches too; otherwise the first matching of 'A-B', 'between A and B',
\* 'A to B' gives (A, B) as written; with no match the result is (None, None).
C8_FirstPatternWins ==
  pc = "priced" =>
    LET hit == Matching(query)
        groups(i) == Search(price_patterns[i], Lower(query))
    IN  /\ hit \cap CeilingForms # {} =>
             price_range = <<None, Some(groups(Min(hit \cap CeilingForms))[1])>>
        /\ (hit # {} /\ hit \cap CeilingForms = {}) =>
             price_range = <<Some(groups(Min(hit))[1]), Some(groups(Min(hit))[2])>>
        /\ hit = {} => price_range = <<None, None>>
        /\ query = <<"u","n","d","e","r"," ","$","5","0">> => price_range = <<None, Some(50)>>
        /\ query = <<"$","2","0","-","$","1","0","0">> => price_range = <<Some(20), Some(100)>>
        /\ query = <<"n","i","c","e"," ","s","h","o","e","s">> => price_range = <<None, None>>
        /\ query = <<"b","e","t","w","e","e","n"," ","$","3","0"," ","a","n","d"," ","$","1","0">> => price_range = <<Some(30), Some(10)>>

\* A text holding both a ceiling form and a range form has been given a ceiling only.
C8_Witness ==
  /\ pc = "priced"
  /\ Matching(query) \cap CeilingForms # {}
  /\ Matching(query) \ CeilingForms # {}
  /\ price_range[1] = None
  /\ price_range[2] # None

\* The filler phrases the specification lists.
ListedFillers == {
  <<"i"," ","n","e","e","d">>, <<"l","o","o","k","i","n","g"," ","f","o","r">>, <<"f","i","n","d"," ","m","e">>, <<"s","e","a","r","c","h"," ","f","o","r">>, <<"s","h","o","w"," ","m","e">>, <<"g","e","t"," ","m","e">> }

\* C9: for every input, the text returned by optimize_search_query contains none of
\* the filler phrases 'i need', 'looking for', 'find me', 'search for', 'show me',
\* 'get me' as a substring.
C9_NoFillerInResult ==
  pc = "optimized" => \A filler \in ListedFillers : ~Contains(optimized, filler)

\* The keywords of the table that occur in the text while their expansion does not.
Applicable(text) ==
  {i \in 1..Len(improvements) :
     /\ Contains(text, improvements[i].keyword)
     /\ ~Contains(text, improvements[i].improvement)}

\* C10: one call of optimize_search_query prepends at most one expansion: that of the
\* first keyword in table order that occurs in the text and whose expansion is not
\* already in it, and none if there is no such keyword.
C10_OneExpansion ==
  pc = "optimized" =>
    LET text == RemoveFillers(Lower(query), 1)
        first == improvements[Min(Applicable(text))].improvement
    IN  optimized = JoinSplit(IF Applicable(text) = {} THEN text
                              ELSE first \o <<" ">> \o text)

\* A text in which several keywords of the table could be expanded was optimized.
C10_Witness ==
  /\ pc = "optimized"
  /\ Cardinality(Applicable(RemoveFillers(Lower(query), 1))) >= 2
  /\ Contains(optimized, improvements[1].improvement)
  /\ ~Contains(optimized, improvements[2].improvement)

(***************************************************************************)
(* Properties of search_amazon_products.                                   *)
(***************************************************************************)
\* The call has returned a value to its caller.
Returned == pc = "searched" /\ search_results.kind = "return"

\* The call has returned success.
Succeeded == Returned /\ search_results.value.success

\* C1: for every provider response and every min_rating, the returned list holds no
\* product whose parsed rating r satisfies 0 < r < min_rating.
C1_NoRatingBelowMinimum ==
  Returned =>
    \A k \in 1..Len(search_results.value.products) :
      LET p == search_results.value.products[k]
      IN  ~(0 < p.rating /\ p.rating < min_rating)

\* A response with an identified record rated below the minimum gave products.
C1_Witness ==
  /\ Succeeded
  /\ search_results.value.products # <<>>
  /\ \E k \in 1..Len(provider.organic_results) :
       LET r == provider.organic_results[k]
       IN  /\ r.shape = "dict"
           /\ r.asin # ""
           /\ 0 < Rating(r)
           /\ Rating(r) < min_rating

\* The products kept by the loop, before the sort.
Kept == Collect(provider.organic_results, max_results, min_rating).value

\* The elements of a list whose key is that of x, in the order of the list.
WithKeyOf(x, list) ==
  LET same(y) == KeyEqual(x, y)
  IN  SelectSeq(list, same)

\* C3: the product list of a successful call is non-increasing by (rating, review
\* count) compared lexicographically, and products with equal keys keep the relative
\* order in which the provider returned them.
C3_SortedStable ==
  Succeeded =>
    LET sorted == search_results.value.products
    IN  /\ \A a, b \in 1..Len(sorted) :
             a < b =>
               \/ sorted[a].rating > sorted[b].rating
               \/ /\ sorted[a].rating = sorted[b].rating
                  /\ sorted[a].reviews.v >= sorted[b].reviews.v
        /\ \A a \in 1..Len(sorted) :
             WithKeyOf(sorted[a], sorted) = WithKeyOf(sorted[a], Kept)

\* Two different products with equal keys were returned, and the sort moved a product.
C3_Witness ==
  /\ Succeeded
  /\ search_results.value.products # Kept
  /\ \E a, b \in 1..Len(search_results.value.products) :
       /\ a < b
       /\ KeyEqual(search_results.value.products[a], search_results.value.products[b])
       /\ search_results.value.products[a].asin # search_results.value.products[b].asin

Failure(text) ==
  [success |-> FALSE, products |-> <<>>, total_results |-> 0, error |-> Some(text)]

\* C4: search_amazon_products never raises to its caller: when the credential lookup,
\* the provider request or the processing of the records fails, it returns
\* success=false, no products, total_results=0 and the exception text as error.
C4_NeverRaises ==
  pc = "searched" =>
    /\ search_results.kind = "return"
    /\ provider.kind \in {"credential_error", "request_error"} =>
         search_results.value = Failure(provider.error)
    /\ (provider.kind = "response" /\ provider.organic_results # <<>>
         /\ provider.organic_results[1].shape # "dict") =>
         search_results.value = Failure("'str' object has no attribute 'get'")
    /\ SearchBody(query, max_results, min_rating, provider).kind = "raise" =>
         search_results.value =
           Failure(SearchBody(query, max_results, min_rating, provider).error)
    /\ ~search_results.value.success =>
         /\ search_results.value.products = <<>>
         /\ search_results.value.total_results = 0
         /\ search_results.value.error # None

\* A response whose records could not be processed was answered with success=false.
C4_Witness ==
  /\ Returned
  /\ provider.kind = "response"
  /\ Len(provider.organic_results) >= 2
  /\ provider.organic_results[1].shape = "dict"
  /\ ~search_results.value.success

(***************************************************************************)
(* Properties of search_products.                                          *)
(***************************************************************************)
\* search_products has returned to its caller.
SearchProductsDone == pc = "search_products_done"

\* Whether an answer holds a piece of kind k with the text s.
HasPiece(text, k, s) == \E n \in 1..Len(text) : text[n].k = k /\ text[n].s = s

\* C5: whenever no variant yields a product (in particular when the provider fails on
\* every attempt), search_products returns asins = [] and products = [] and an answer
\* that contains the error message of the last attempt.
C5_NothingFound ==
  (SearchProductsDone /\ ~Yields(search_results.value)) =>
    /\ ret.kind = "return"
    /\ ret.value.asins = <<>>
    /\ ret.value.products = <<>>
    /\ HasPiece(ret.value.answer, "Error:",
                IF search_results.value.success THEN "No products found"
                ELSE search_results.value.error[1])

\* Every variant was tried without a product, the last one failing at the provider
\* after an earlier one had been answered.
C5_Witness ==
  /\ SearchProductsDone
  /\ Len(searches) = Len(search_attempts)
  /\ Len(calls) < Len(searches)
  /\ provider.kind = "request_error"
  /\ ret.value.products = <<>>
  /\ HasPiece(ret.value.answer, "Error:", provider.error)

PackingDone == pc = "generate_packing_list_done"

\* The products of the last call that the formatting of the answer reads: the first n.
Malformed(n) ==
  /\ Yields(search_results.value)
  /\ \E k \in 1..n : /\ k <= Len(search_results.value.products)
                     /\ search_results.value.products[k].title.t # "str"

\* C7: search_products and generate_packing_list never raise; when an exception is
\* raised inside them (a product field that cannot be formatted) they return a
\* dictionary with a non-empty answer that carries the exception's text, and with empty
\* asins and products (items).
C7_NoFaultEscapes ==
  /\ SearchProductsDone =>
       /\ ret.kind = "return"
       /\ ret.value.answer # <<>>
       /\ Malformed(ShownProducts) =>
            /\ HasPiece(ret.value.answer, "an error occurred while searching",
                        "'NoneType' object is not subscriptable")
            /\ ret.value.asins = <<>>
            /\ ret.value.products = <<>>
  /\ PackingDone =>
       /\ ret.kind = "return"
       /\ ret.value.answer # <<>>
       /\ Malformed(TopProducts) =>
            /\ HasPiece(ret.value.answer, "an error occurred while generating",
                        "object of type 'NoneType' has no len()")
            /\ ret.value.asins = <<>>
            /\ ret.value.items = <<>>

\* search_products found products of which one has no title, and returned.
C7_Witness ==
  /\ SearchProductsDone
  /\ products # <<>>
  /\ Malformed(ShownProducts)
  /\ ret.kind = "return"
  /\ ret.value.products = <<>>

\* Whether every product of a list has an identifier.
AllIdentified(prods) == \A k \in 1..Len(prods) : prods[k].asin # ""

\* C2: no product returned by search_amazon_products has a missing or empty identifier,
\* whatever its rating; so no product and no identifier returned by search_products
\* and generate_packing_list is empty either.
C2_NoEmptyAsin ==
  /\ search_results.kind = "return" => AllIdentified(search_results.value.products)
  /\ SearchProductsDone =>
       /\ AllIdentified(ret.value.products)
       /\ \A k \in 1..Len(ret.value.asins) : ret.value.asins[k] # ""
  /\ PackingDone =>
       /\ \A i \in 1..Len(ret.value.items) : AllIdentified(ret.value.items[i].products)
       /\ \A i \in 1..Len(ret.value.asins) :
            \A k \in 1..Len(ret.value.asins[i].asins) : ret.value.asins[i].asins[k] # ""

\* The provider answered with a five-star record without identifier among others, and
\* search_products returned the others.
C2_Witness ==
  /\ SearchProductsDone
  /\ provider.kind = "response"
  /\ \E k \in 1..Len(provider.organic_results) :
       /\ provider.organic_results[k].asin = ""
       /\ Rating(provider.organic_results[k]) = 50
  /\ ret.value.products # <<>>
  /\ Len(ret.value.asins) = Len(ret.value.products)

\* The products an answer lists, in order: the identifiers of its product pieces.
Listed(text) ==
  LET isProduct(piece) == piece.k = "product"
      pieces == SelectSeq(text, isProduct)
  IN  [n \in 1..Len(pieces) |-> pieces[n].s]

\* What C11 says search_products returns for the product list of the variant that
\* succeeded: the whole list, the identifier of each product in the same order, and an
\* answer that lists the first min(8, n) products.
ReturnsWhole(found) ==
  /\ ret.kind = "return"
  /\ ret.value.products = found
  /\ ret.value.asins = [k \in 1..Len(found) |-> found[k].asin]
  /\ Listed(ret.value.answer) =
       [k \in 1..(IF Len(found) < ShownProducts THEN Len(found) ELSE ShownProducts)
          |-> found[k].asin]

Listing == pc = "listed"

Elems(list) == {list[i] : i \in DOMAIN list}

RECURSIVE Flatten(_, _)
\* The item lists of a table from the i-th entry on, one after the other.
Flatten(table, i) ==
  IF i > Len(table) THEN <<>> ELSE table[i].items \o Flatten(table, i + 1)

\* Every item the function can name, in the order the code reaches it: the base
\* items, the duration items, the climate table, the activity table.
Catalogue ==
  base_items \o LongTripItems \o ShortTripItems \o Flatten(climate_items, 1)
    \o Flatten(activities, 1)

Position(list, x) == Min({i \in DOMAIN list : list[i] = x})

\* Whether the lower-cased description holds one of the words.
HasAny(description, words) ==
  \E lowered \in {Lower(description)} : \E word \in words : Contains(lowered, word)

\* C12: for every description, the returned list holds no item twice and keeps
\* first-seen order: the four base items first, then the duration items, then the
\* climate items, then the activity items, each in the order of its table.
C12_NoDuplicateFirstSeen ==
  Listing =>
    /\ Len(packing_items) >= Len(base_items)
    /\ SubSeq(packing_items, 1, Len(base_items)) = base_items
    /\ Elems(packing_items) \subseteq Elems(Catalogue)
    /\ \A a, b \in DOMAIN packing_items :
         a < b => Position(Catalogue, packing_items[a]) < Position(Catalogue, packing_items[b])

\* The example of the specification: base, week and beach items, in that order.
C12_Witness ==
  /\ Listing
  /\ question = <<"b","e","a","c","h"," ","v","a","c","a","t","i","o","n"," ","f","o","r"," ","a"," ","w","e","e","k">>
  /\ packing_items = base_items \o LongTripItems \o climate_items[2].items

\* C13 as stated: a description with a long-trip keyword gets the long-trip items, a
\* description with a short-trip keyword gets the short-trip items, and no
\* description gets both sets.
C13_OneDurationBranch ==
  Listing =>
    /\ HasAny(question, LongTripWords) => Elems(LongTripItems) \subseteq Elems(packing_items)
    /\ HasAny(question, ShortTripWords) => Elems(ShortTripItems) \subseteq Elems(packing_items)
    /\ ~(/\ Elems(LongTripItems) \subseteq Elems(packing_items)
         /\ Elems(ShortTripItems) \subseteq Elems(packing_items))

\* The positions in climate_items of the keywords the lower-cased description holds.
ClimateMatches(description) ==
  The({ {i \in DOMAIN climate_items : Contains(lowered, climate_items[i].climate)}
        : lowered \in {Lower(description)} })

\* C14: only one climate category contributes: the item list of the first matching
\* keyword in table order is in the result, whole and in order, and no item of any
\* other climate category is.
C14_FirstClimateOnly ==
  Listing =>
    \E matches \in {ClimateMatches(question)} :
      \A i \in DOMAIN climate_items :
        LET isItem(x) == x \in Elems(climate_items[i].items)
        IN  SelectSeq(packing_items, isItem) =
              (IF matches # {} /\ i = Min(matches) THEN climate_items[i].items ELSE <<>>)

\* Several climate keywords occur, and the items of the first in table order are in
\* the result.
C14_Witness ==
  /\ Listing
  /\ \E matches \in {ClimateMatches(question)} :
       /\ Cardinality(matches) >= 2
       /\ Elems(climate_items[Min(matches)].items) \subseteq Elems(packing_items)

\* The positions in activities of the keywords the lower-cased description holds.
ActivityMatches(description) ==
  The({ {i \in DOMAIN activities : Contains(lowered, activities[i].activity)}
        : lowered \in {Lower(description)} })

\* C15: every activity keyword occurring in the description contributes its full
\* item list, the lists in table order, and an activity whose keyword does not occur
\* contributes nothing.
C15_EveryActivity ==
  Listing =>
    \E matches \in {ActivityMatches(question)} :
      /\ \A i \in DOMAIN activities :
           LET isItem(x) == x \in Elems(activities[i].items)
           IN  SelectSeq(packing_items, isItem) =
                 (IF i \in matches THEN activities[i].items ELSE <<>>)
      /\ \A i, j \in matches :
           i < j => Position(packing_items, activities[i].items[Len(activities[i].items)])
                      < Position(packing_items, activities[j].items[1])

\* Two activity keywords or more occur, and the items of the last one are in the
\* result.
C15_Witness ==
  /\ Listing
  /\ \E matches \in {ActivityMatches(question)} :
       /\ Cardinality(matches) >= 2
       /\ \A i \in matches : Elems(activities[i].items) \subseteq Elems(packing_items)

(***************************************************************************)
(* generate_packing_list                                                   *)
(***************************************************************************)
\* The names under the per-item headers of an answer, in order.
Reported(text) ==
  LET isItem(piece) == piece.k = "item"
      pieces == SelectSeq(text, isItem)
  IN  [n \in 1..Len(pieces) |-> pieces[n].q]

\* The headers generate_packing_list writes for a list of items.
Headers(names) == [n \in 1..Len(names) |-> TitleCase(names[n])]

\* The items handled so far, with or without products.
Handled == {results[n].item : n \in 1..Len(results)} \cup Elems(failed_searches)

\* Every item of priority_items was searched and has its header in the answer, in
\* the order of the list.
WholeListSearched ==
  /\ item = Len(priority_items) + 1
  /\ Handled = Elems(priority_items)
  /\ Len(results) + Len(failed_searches) = Len(priority_items)
  /\ \E headers \in {Headers(priority_items)} :
       /\ Reported(answer) = headers
       /\ results # <<>> => Reported(ret.value.answer) = headers

\* The list searched is the first ten items of the smart packing list, or all of it.
FirstTen ==
  /\ Len(priority_items) = (IF Len(packing_items) < PriorityItems
                            THEN Len(packing_items) ELSE PriorityItems)
  /\ \A k \in 1..Len(priority_items) : priority_items[k] = packing_items[k]

\* A call searches the item at the current position, and the position stays or moves
\* to the next item.
SearchesInOrder ==
  pc = "generate_packing_list" =>
    /\ item \in 1..Len(priority_items)
    /\ query' \in Elems(SearchQueries(priority_items[item]))
    /\ item' \in {item, item + 1}
    /\ priority_items' = priority_items

\* An item whose variants all failed is reported under its header, and the run goes
\* on: nothing is returned yet, and the next item is the one to search.
FailureIsolated ==
  (pc = "generate_packing_list" /\ failed_searches' # failed_searches) =>
    /\ failed_searches' = Append(failed_searches, priority_items[item])
    /\ answer' = answer \o <<Piece("item", "", TitleCase(priority_items[item]), 0),
                             Piece("no specific products found", "", <<>>, 0)>>
    /\ ret' = ret
    /\ pc' # "generate_packing_list_done"
    /\ item' = item + 1
    /\ item < Len(priority_items) => pc' = "generate_packing_list"

NothingFound ==
  /\ PackingDone
  /\ priority_items # <<>>
  /\ failed_searches = priority_items

\* C17: if no packing item finds any product, generate_packing_list returns as its
\* answer only the single aggregate failure message (no per-item header, no per-item
\* marker), with an empty asins mapping and an empty items list.
C17_AggregateFailureOnly ==
  NothingFound =>
    /\ ret.kind = "return"
    /\ ret.value.answer =
         <<Piece("unable to find specific product recommendations", "", question, 0)>>
    /\ ret.value.asins = <<>>
    /\ ret.value.items = <<>>

\* Ten items were searched, each one in vain, and the per-item markers written on the
\* way are not in the answer returned.
C17_Witness ==
  /\ NothingFound
  /\ Len(failed_searches) = PriorityItems
  /\ Len(Reported(answer)) = PriorityItems
  /\ Reported(ret.value.answer) = <<>>

(***************************************************************************)
(* The price bounds of the provider request                                *)
(***************************************************************************)
\* search_amazon_products has been called and has sent its request.
Requested == pc = "searched" /\ calls # <<>>

\* C18 as stated: whenever the price range detected for a search has both a floor and
\* a ceiling, the floor is at most the ceiling, in the values extract_price_range
\* returns and in the low_price and high_price sent to the provider.
C18_FloorAtMostCeiling ==
  Requested =>
    /\ \E range \in {extract_price_range(query)} :
         (range[1] # None /\ range[2] # None) => range[1][1] <= range[2][1]
    /\ \A n \in 1..Len(calls) :
         (calls[n].low_price # None /\ calls[n].high_price # None) =>
           calls[n].low_price[1] <= calls[n].high_price[1]

\* C19 as stated: every price bound detected in the query is carried by the single
\* provider request: a floor (a ceiling) that extract_price_range returns, the value
\* 0 included, is the request's low_price (high_price), and the request carries no
\* bound that was not detected.
C19_DetectedBoundsCarried ==
  Requested =>
    \E range \in {extract_price_range(query)} :
      /\ Len(calls) = 1
      /\ calls[1].low_price = range[1]
      /\ calls[1].high_price = range[2]

(***************************************************************************)
(* The query variants of search_products                                   *)
(***************************************************************************)
\* search_products is running or has returned.
InSearchProducts ==
  pc \in {"search_products", "search_products_return", "search_products_done"}

\* C20: the variant list of search_products is, in this order, the question,
\* optimize_search_query(question), 'best rated ' + optimized iff the lower-cased
\* question contains 'best', 'top', 'good' or 'recommend', 'budget ' + optimized iff it
\* contains 'cheap' or 'budget'; it has 2 to 4 entries, the variants are tried in that
\* order, and at most 4 provider calls are made.
C20_VariantList ==
  InSearchProducts =>
    \E lowered \in {Lower(question)}, normalized \in {optimize_search_query(question)} :
    \E quality \in {\E word \in {<<"b","e","s","t">>, <<"t","o","p">>, <<"g","o","o","d">>, <<"r","e","c","o","m","m","e","n","d">>} :
                      Contains(lowered, word)},
       budget \in {Contains(lowered, <<"c","h","e","a","p">>) \/ Contains(lowered, <<"b","u","d","g","e","t">>)} :
      /\ search_attempts =
           <<question, normalized>>
           \o (IF quality THEN <<<<"b","e","s","t"," ","r","a","t","e","d"," ">> \o normalized>> ELSE <<>>)
           \o (IF budget THEN <<<<"b","u","d","g","e","t"," ">> \o normalized>> ELSE <<>>)
      /\ Len(search_attempts) \in 2..4
      /\ Len(searches) <= Len(search_attempts)
      /\ searches = SubSeq(search_attempts, 1, Len(searches))
      /\ Len(calls) <= Len(searches)
      /\ Len(calls) <= 4

\* A question with a quality word and a budget word: four variants, each one tried
\* and sent to the provider.
C20_Witness ==
  /\ SearchProductsDone
  /\ Len(search_attempts) = 4
  /\ searches = search_attempts
  /\ Len(calls) = 4

(***************************************************************************)
(* The query text of the provider request                                  *)
(***************************************************************************)
\* The expansions of the table that a request text holds and the text it was made
\* from does not: the ones prepended on the way.
Prepended(k, original) ==
  The({ {i \in DOMAIN improvements :
           /\ Contains(k, improvements[i].improvement)
           /\ ~Contains(lowered, improvements[i].improvement)}
        : lowered \in {Lower(original)} })

\* C21 as stated: for every variant that search_products or generate_packing_list
\* passes to search_amazon_products, the query text placed in the provider request
\* has had at most one keyword expansion prepended to the user's text (for
\* generate_packing_list: to the item variant), even when several keywords occur.
C21_OneExpansionInRequest ==
  /\ InSearchProducts =>
       \A n \in 1..Len(calls) : Cardinality(Prepended(calls[n].k, question)) <= 1
  /\ (pc \in {"generate_packing_list", "generate_packing_list_return",
              "generate_packing_list_done"} /\ calls # <<>>) =>
       Cardinality(Prepended(calls[Len(calls)].k, searches[Len(searches)])) <= 1

(***************************************************************************)
(* The cut-off of search_amazon_products at max_results                    *)
(***************************************************************************)
\* A record that qualifies: an identifier, and a rating unknown or not below minimum.
Qualifying(record, minimum) ==
  /\ record.shape = "dict"
  /\ record.asin # ""
  /\ (Rating(record) = 0 \/ Rating(record) >= minimum)

\* The identifiers of the first maximum qualifying records, in provider order.
FirstQualifying(organic_results, maximum, minimum) ==
  LET qualifies(i) == Qualifying(organic_results[i], minimum)
      positions == SelectSeq([i \in 1..Len(organic_results) |-> i], qualifies)
  IN  [n \in 1..(IF Len(positions) < maximum THEN Len(positions) ELSE maximum)
         |-> organic_results[positions[n]].asin]

\* How often an identifier occurs in a list of identifiers.
Occurrences(list, x) == Cardinality({n \in DOMAIN list : list[n] = x})

\* C22: for max_results >= 1, a successful call returns exactly the first max_results
\* qualifying records in provider order (all of them when fewer), qualifying meaning a
\* non-empty identifier and a rating of 0 or at least min_rating; no record after the
\* cut-off is returned, and the result never has more than max_results products.
C22_CutOffAtMaxResults ==
  (Succeeded /\ max_results >= 1) =>
    \E expected \in {FirstQualifying(provider.organic_results, max_results, min_rating)},
       returned \in {[n \in 1..Len(search_results.value.products)
                        |-> search_results.value.products[n].asin]} :
      /\ Len(returned) <= max_results
      /\ Len(returned) = Len(expected)
      /\ \A x \in Elems(expected) \cup Elems(returned) :
           Occurrences(returned, x) = Occurrences(expected, x)
      /\ [n \in 1..Len(Kept) |-> Kept[n].asin] = expected

\* The response holds, after the cut-off, a qualifying record rated higher than a
\* product returned, and it is not returned.
C22_Witness ==
  /\ Succeeded
  /\ Len(search_results.value.products) = max_results
  /\ \E i \in 1..Len(provider.organic_results) :
       LET record == provider.organic_results[i]
       IN  /\ Qualifying(record, min_rating)
           /\ \A n \in 1..Len(search_results.value.products) :
                /\ search_results.value.products[n].asin # record.asin
                /\ search_results.value.products[n].rating < Rating(record)

(***************************************************************************)
(* The provider calls of generate_packing_list                             *)
(***************************************************************************)
InPackingList ==
  pc \in {"generate_packing_list", "generate_packing_list_return",
          "generate_packing_list_done"}

\* At most three calls for the item at hand, at most thirty in the run, and at most
\* three products kept per item.
CallsBounded ==
  InPackingList =>
    /\ Len(searches) <= 3
    /\ Len(calls) <= 3
    /\ provider_calls <= 30
    /\ provider_calls <= 3 * Len(priority_items)
    /\ \A n \in 1..Len(results) : Len(results[n].products) <= 3

\* A turn calls the next variant of the item at hand, in the order 'travel {item}',
\* 'best {item}', '{item}'; a variant that returns a product is the last one called
\* for its item, and its first three products are the ones kept.
VariantsInOrder ==
  pc = "generate_packing_list" =>
    \E name \in {priority_items[item]} :
      /\ searches' = SubSeq(<<<<"t","r","a","v","e","l"," ">> \o name, <<"b","e","s","t"," ">> \o name, name>>, 1, Len(searches'))
      /\ Len(searches') = variant
      /\ query' = searches'[variant]
      /\ provider_calls' <= provider_calls + 1
      /\ Yields(search_results'.value) =>
           /\ item' = item + 1 \/ pc' = "generate_packing_list_done"
           /\ pc' # "generate_packing_list_done" =>
                results' = Append(results,
                                  [item |-> name,
                                   products |-> FirstN(search_results'.value.products, 3)])
      /\ ~Yields(search_results'.value) =>
           IF variant < 3 THEN item' = item /\ variant' = variant + 1
           ELSE item' = item + 1

\* The turns of the two loops and the steps after them that are left at most: a
\* natural number.
Remaining ==
  CASE pc = "generate_packing_list" ->
         3 * (Len(priority_items) - item) + (3 - variant) + 2
    [] pc = "generate_packing_list_return" -> 1
    [] pc = "generate_packing_list_done" -> 0
    [] OTHER -> 3 * PriorityItems + 5

\* A run that has not returned has its next step: the loop is at an item of the list
\* and at one of its three variants.
CanGoOn ==
  /\ Remaining \in Nat
  /\ pc = "generate_packing_list" =>
       /\ item \in 1..Len(priority_items)
       /\ variant \in 1..3

\* C23: for each packing item, generate_packing_list tries 'travel {item}',
\* 'best {item}', '{item}' in that order, makes no further provider call for the item
\* after the first variant that returns a product, and keeps at most the top 3
\* products of that variant; it makes at most 3 provider calls per item and at most 30
\* in total, and it always terminates: every step lowers the number of steps left,
\* and a run that has not returned can take its next step.
C23_VariantsPerItem ==
  /\ []CallsBounded
  /\ []CanGoOn
  /\ [][VariantsInOrder /\ Remaining' < Remaining]_vars

\* A run over ten items ended: items failed after three calls each, and the last
\* item found four products with its second variant, of which three were kept.
C23_Witness ==
  /\ PackingDone
  /\ Len(priority_items) = PriorityItems
  /\ failed_searches # <<>>
  /\ provider_calls > 20
  /\ Len(calls) = 2
  /\ Yields(search_results.value)
  /\ Len(search_results.value.products) = PackingMaxResults
  /\ results[Len(results)].item = priority_items[PriorityItems]
  /\ Len(results[Len(results)].products) = TopProducts

(***************************************************************************)
(* shopping_assistant                                                      *)
(***************************************************************************)
AssistantDone == pc = "shopping_assistant_done"

\* The methods of the requests posted, in order.
Methods == [n \in 1..Len(requests) |-> requests[n].method]

\* A post that raised (a refused connection, a timeout) or returned another status
\* than 200.
PostFailed(o) ==
  \/ o.kind = "request_error"
  \/ o.kind = "response" /\ o.status # 200

\* C24: the tools/call request is sent only after the initialize request has returned
\* HTTP 200; one invocation sends at most one initialize request and at most one
\* tools/call request; a failure, non-200 status or timeout of either request ends the
\* invocation and is never followed by a retry.
C24_OneRoundTripEach ==
  /\ [](Methods \in {<<>>, <<"initialize">>, <<"initialize", "tools/call">>})
  /\ [][(requests' # requests /\ requests'[Len(requests')].method = "tools/call") =>
          /\ Methods = <<"initialize">>
          /\ gateway.kind = "response"
          /\ gateway.status = 200]_vars
  /\ [][(requests' # requests /\ PostFailed(gateway')) => AssistantDone']_vars
  /\ [][~AssistantDone]_vars

\* The tools/call request timed out after an initialize request answered with 200:
\* the invocation has ended with one request of each kind.
C24_Witness ==
  /\ AssistantDone
  /\ Methods = <<"initialize", "tools/call">>
  /\ gateway = [kind |-> "request_error", error |-> "ReadTimeout"]

\* A failure of the gateway: the credential lookup failed, a post raised or returned
\* another status than 200, or the body of the tools/call response cannot be parsed
\* or has an 'error' member.
GatewayFailure ==
  \/ gateway.kind = "credential_error"
  \/ gateway.kind \in {"request_error", "response"} /\ PostFailed(gateway)
  \/ /\ gateway.kind = "response"
     /\ gateway.status = 200
     /\ Len(requests) = 2
     /\ \/ gateway.body.json = "invalid"
        \/ gateway.body.json = "dict" /\ gateway.body.error

\* C25: any gateway failure makes the invocation yield exactly one record, the
\* 'result' record with the fallback text quoting the query; it yields no 'error'
\* record, nothing else, and raises nothing to the caller.
C25_FailureYieldsFallback ==
  (AssistantDone /\ GatewayFailure) =>
    /\ yielded = <<[key |-> "result", kind |-> "fallback", text |-> query]>>
    /\ \A n \in 1..Len(yielded) : yielded[n].key # "error"
    /\ ret.kind = "return"

\* The tools/call response had status 200 and an 'error' member, and the fallback
\* was yielded.
C25_Witness ==
  /\ AssistantDone
  /\ gateway.kind = "response"
  /\ gateway.status = 200
  /\ gateway.body.error
  /\ Len(yielded) = 1
  /\ yielded[1].kind = "fallback"
  /\ yielded[1].text = query

====
